---------------------------- MODULE Spec2Model ----------------------------
(***************************************************************************)
(* Record store, status lifecycle and archival of the ticket/hotel bot     *)
(* (src/bot.py).  A table is a sequence of rows; the persisted tables are  *)
(* Excel files written and read whole; reads go through a process-wide     *)
(* cache of DataFrame objects with a 5 minute time-to-live.  Every handler *)
(* is one atomic step (the dispatcher runs handlers one at a time); the    *)
(* daily job runs on a thread of its own, in steps of its safe_read.       *)
(*                                                                         *)
(* Spec      the store, the status handlers and archival, runs of up to    *)
(*           MaxSteps steps;                                               *)
(* Dialogue  the conversation engine of one user (ticket and hotel intake  *)
(*           dialogues, the dispatcher's choice of handler), runs of up to *)
(*           MaxEntries dialogue entries and MaxSaved saved records;       *)
(* Pages     build_page applied to lists of up to MaxItems records;        *)
(* Comments  the comment dialogue of the administrator;                    *)
(* Cards     the cards and list lines of stored records with up to         *)
(*           MaxComments comments;                                         *)
(* Reminders check_reminders, up to MaxRuns invocations by the command and *)
(*           by the daily job on the job queue's thread;                   *)
(* Race      mutations of the applications table next to the job's read;   *)
(* Cache     safe_read against a file changed outside the store;           *)
(* Names     the intake dialogues with a name that reads back as a missing *)
(*           cell;                                                         *)
(* Report    the period report next to the operations of the store;        *)
(* Archival  submissions and archive operations without failures.          *)
(***************************************************************************)
EXTENDS Integers, Sequences, FiniteSets, TLC

(***************************************************************************)
(* Bounds of the model.                                                    *)
(***************************************************************************)
MaxSteps == 3        \* handler invocations and clock steps of a run
MaxEntries == 2      \* entries into an intake dialogue in a run
MaxSaved == 2        \* records saved by the dialogues in a run
MaxItems == 12       \* records in a list given to build_page

(***************************************************************************)
(* Program constants.                                                      *)
(***************************************************************************)
ADMIN_ID == "7734124159"
APPLICATIONS_FILE == "applications.xlsx"
HOTELS_FILE == "hotels.xlsx"
USERS_FILE == "users.xlsx"
ARCHIVE_FILE == "archive.xlsx"
COMMENTS_FILE == "comments.xlsx"
FILES == {APPLICATIONS_FILE, HOTELS_FILE, USERS_FILE, ARCHIVE_FILE, COMMENTS_FILE}
IdFiles == {APPLICATIONS_FILE, HOTELS_FILE, COMMENTS_FILE}

\* timedelta(minutes=5) of safe_read, in minutes
CACHE_TTL == 5

ITEMS_PER_PAGE == 5

\* STATUSES: key -> label (labels transliterated to ASCII)
STATUSES ==
  [pending |-> "Na rassmotrenii",
   waiting_payment |-> "Ozhidaet oplaty",
   approved |-> "Odobreno",
   ticket_issued |-> "Bilet vydan",
   in_progress |-> "V puti",
   completed |-> "Zaversheno",
   rejected |-> "Otkloneno",
   cancelled |-> "Otmeneno"]

\* the ad-hoc texts written by the self-service cancel handlers
CANCEL_APP_STATUS == "Otklonena polzovatelem"
CANCEL_HOTEL_STATUS == "Otmeneno polzovatelem"

(***************************************************************************)
(* Inputs drawn by the actions.                                            *)
(***************************************************************************)
Users == {ADMIN_ID, "101", "102"}
Submitters == {"101", "102"}
ItemTypes == {"app", "hotel"}
\* texts of /set_status: a free text, and a text that is one of pandas'
\* default NA strings
StatusTexts == {"na utochnenii", "NA"}
\* keys of the status shortcut callbacks: one of a card's buttons, and a key
\* that is not in STATUSES
StatusKeys == {"rejected", "bogus"}
\* ids named by commands and callbacks
Ids == 1..2
\* elapsed minutes drawn by the clock
Elapsed == {CACHE_TTL}

(***************************************************************************)
(* State.                                                                  *)
(*   file     : the persisted tables, file name -> sequence of rows as     *)
(*              stored in cells                                            *)
(*   cache    : the module-level dict `cache`; an entry holds the          *)
(*              DataFrame object and its age in minutes                    *)
(*   assigned : history, per id-numbered table the ids returned by         *)
(*              successful inserts, in order                               *)
(*   last     : history, what the last handler did                         *)
(*   steps    : history, the number of steps taken                         *)
(*   conv     : the ConversationHandler's state of the user's conversation *)
(*   user_data: context.user_data of the user, the draft: key -> value     *)
(*   buttons  : the inline keyboards on the messages the user can tap      *)
(*   entered  : history, the number of dialogue entries                    *)
(*   pager    : the list and page number given to build_page, and what it  *)
(*              returned                                                   *)
(*   cards    : the cards and list lines sent by the last handler          *)
(*   reminded : history, the invocations of check_reminders: when, and the *)
(*              reminders sent                                             *)
(*   job      : the thread of the job queue: where it is in                *)
(*              check_reminders and the DataFrame it holds                 *)
(***************************************************************************)
VARIABLES file, cache, assigned, last, steps, conv, user_data, buttons,
          entered, pager, cards, reminded, job
vars == <<file, cache, assigned, last, steps, conv, user_data, buttons,
          entered, pager, cards, reminded, job>>

(***************************************************************************)
(* pandas / Excel.                                                         *)
(***************************************************************************)
\* float NaN, the value of a missing cell in a DataFrame
NaN == "NaN"
\* strings read_excel turns into NaN by default (keep_default_na=True);
\* "" is the empty cell
STR_NA_VALUES == {"", "NA"}
\* Python's None, the value of dict.get for a missing key
None == "None"

\* the columns that hold text (the others hold numbers, booleans, user ids)
TextColumns ==
  {"Status", "FIO", "PassportFileID", "Route", "Date", "TimeOfDay", "Reason",
   "ReturnRoute", "ReturnDate", "HotelCity", "CheckIn", "CheckOut", "RoomType",
   "Comment"}

DecodeCell(c) == IF c \in STR_NA_VALUES THEN NaN ELSE c
EncodeCell(v) == IF v \in {NaN, None} THEN "" ELSE v

\* pd.read_excel(path): the rows of the file as a DataFrame
ReadExcel(cells) ==
  [i \in DOMAIN cells |->
     [f \in DOMAIN cells[i] |->
        IF f \in TextColumns THEN DecodeCell(cells[i][f]) ELSE cells[i][f]]]

\* df.to_excel(path, index=False): the cells written for a DataFrame
WriteExcel(df) ==
  [i \in DOMAIN df |->
     [f \in DOMAIN df[i] |->
        IF f \in TextColumns THEN EncodeCell(df[i][f]) ELSE df[i][f]]]

NoEntry == [present |-> FALSE, data |-> <<>>, age |-> 0]
Entry(df) == [present |-> TRUE, data |-> df, age |-> 0]

\* a test that never takes the cache entry: every read goes to the file
Fresh_never(e) == FALSE

\* a test that still takes an entry that is exactly 5 minutes old
Fresh_le(e) == e.present /\ e.age <= CACHE_TTL

\* safe_read's test of a cache entry
Fresh(e) == e.present /\ e.age < CACHE_TTL

\* safe_read(path) on store S = [file, cache]; rd_ok: pd.read_excel succeeds.
\* Result: the DataFrame, whether it has columns, and the store afterwards.
SafeRead(S, path, rd_ok) ==
  IF Fresh(S.cache[path])
    THEN [df |-> S.cache[path].data, cols |-> TRUE, S |-> S]
    ELSE IF rd_ok
      THEN LET df == ReadExcel(S.file[path])
           IN [df |-> df, cols |-> TRUE,
               S |-> [S EXCEPT !.cache[path] = Entry(df)]]
      ELSE [df |-> <<>>, cols |-> FALSE, S |-> S]

\* safe_write that leaves the cache entry of path in place
Invalidate_kept(c, path) == c

\* the cache after safe_write's invalidation of path
Invalidate(c, path) == [c EXCEPT ![path] = NoEntry]

\* safe_write(df, path) on store S; wr_ok: df.to_excel succeeds.
SafeWrite(S, df, path, wr_ok) ==
  IF wr_ok
    THEN [raised |-> FALSE,
          S |-> [file |-> [S.file EXCEPT ![path] = WriteExcel(df)],
                 cache |-> Invalidate(S.cache, path)]]
    ELSE [raised |-> TRUE, S |-> S]

MaxOf(s) == CHOOSE m \in s : \A y \in s : y <= m

ColumnID(df) == {df[i].ID : i \in DOMAIN df}

\* next_id without the increment
NextId_max(df) == IF df = <<>> THEN 1 ELSE MaxOf(ColumnID(df))

\* next_id(df)
NextId(df) == IF df = <<>> THEN 1 ELSE MaxOf(ColumnID(df)) + 1

(***************************************************************************)
(* Helpers on DataFrames.                                                  *)
(***************************************************************************)
\* df.index[df["ID"] == sid].tolist()
IndexOf(df, sid) == {i \in DOMAIN df : df[i].ID = sid}
MinOf(s) == CHOOSE m \in s : \A y \in s : m <= y

\* df.at[i, "Status"] = status
SetAt(df, i, status) == [df EXCEPT ![i].Status = status]

\* df.loc[df["ID"] == item_id, "Status"] = new_status
SetLoc(df, item_id, new_status) ==
  [i \in DOMAIN df |->
     IF df[i].ID = item_id THEN [df[i] EXCEPT !.Status = new_status] ELSE df[i]]

RECURSIVE Filter(_, _)
\* df[df["ID"] != item_id]
Filter(df, item_id) ==
  IF df = <<>> THEN <<>>
  ELSE IF Head(df).ID = item_id THEN Filter(Tail(df), item_id)
       ELSE <<Head(df)>> \o Filter(Tail(df), item_id)

\* a row with the columns cols: a column the row does not have is NaN
Reindex(row, cols) ==
  [c \in cols |-> IF c \in DOMAIN row THEN row[c] ELSE NaN]

\* pd.concat([df, pd.DataFrame([row])], ignore_index=True): the rows of df
\* and the new row, each with the columns of both
Concat(df, row) ==
  LET cols == UNION ({DOMAIN df[i] : i \in DOMAIN df} \cup {DOMAIN row})
  IN [i \in 1..(Len(df) + 1) |->
        Reindex(IF i <= Len(df) THEN df[i] ELSE row, cols)]

\* the DataFrame object df is the one the cache holds for path (safe_read
\* returned it on a hit, or stored it on a miss): an in-place assignment
\* to df changes the cached object
MutateCached(S, path, df2) == [S EXCEPT !.cache[path].data = df2]

FileOf(item_type) == IF item_type = "app" THEN APPLICATIONS_FILE ELSE HOTELS_FILE

Store == [file |-> file, cache |-> cache]

\* a send that is tried again when it fails
Attempt_retry(user_id, ok) ==
  IF ok THEN <<[to |-> user_id, ok |-> TRUE]>>
  ELSE <<[to |-> user_id, ok |-> FALSE], [to |-> user_id, ok |-> FALSE]>>

\* one attempt to send a message to user_id; ok: the send succeeded
Attempt(user_id, ok) == <<[to |-> user_id, ok |-> ok]>>

\* ConversationHandler.END: no conversation is active
END == "END"

(***************************************************************************)
(* Status markers.                                                         *)
(***************************************************************************)
\* STATUS_COLORS: key -> color marker (the circles, by the name of their
\* color)
STATUS_COLORS ==
  [pending |-> "yellow",
   waiting_payment |-> "orange",
   approved |-> "green",
   ticket_issued |-> "blue",
   in_progress |-> "purple",
   completed |-> "brown",
   rejected |-> "red",
   cancelled |-> "black"]

\* the default of STATUS_COLORS.get(status_key, ...): the white circle
NEUTRAL == "white"

\* next((k for k, v in STATUSES.items() if v == status), "pending")
StatusKey(status) ==
  IF \E k \in DOMAIN STATUSES : STATUSES[k] = status
    THEN CHOOSE k \in DOMAIN STATUSES : STATUSES[k] = status
    ELSE "pending"

\* STATUS_COLORS.get(status_key, NEUTRAL)
StatusColor(status) ==
  IF StatusKey(status) \in DOMAIN STATUS_COLORS
    THEN STATUS_COLORS[StatusKey(status)]
    ELSE NEUTRAL

(***************************************************************************)
(* Pagination.                                                             *)
(***************************************************************************)
Max(a, b) == IF a >= b THEN a ELSE b
Min(a, b) == IF a <= b THEN a ELSE b

\* math.ceil(total / ITEMS_PER_PAGE) with the floor in place of the ceiling
CeilDiv_floor(a, b) == a \div b

\* math.ceil(a / b) for a >= 0, b > 0
CeilDiv(a, b) == (a + b - 1) \div b

\* the slice of page `page` beginning where that page ends
PageStart_next(page) == page * ITEMS_PER_PAGE

\* start = (page - 1) * ITEMS_PER_PAGE
PageStart(page) == (page - 1) * ITEMS_PER_PAGE

\* items[start:start + ITEMS_PER_PAGE]
Chunk(items, start) ==
  SubSeq(items, start + 1, Min(start + ITEMS_PER_PAGE, Len(items)))

\* the button of one item of the chunk: an application is an item with a
\* "Route" key, every other item is shown as a hotel booking
ViewButton(item) ==
  IF "Route" \in DOMAIN item THEN [data |-> "view_app", id |-> item.ID]
  ELSE [data |-> "view_hotel", id |-> item.ID]

\* the line of one item of the chunk: its color marker
PageLine(item) ==
  [view |-> "line",
   typ |-> IF "Route" \in DOMAIN item THEN "app" ELSE "hotel",
   id |-> item.ID, for_admin |-> FALSE,
   status |-> IF "Status" \in DOMAIN item THEN item.Status ELSE "",
   marker |-> StatusColor(IF "Status" \in DOMAIN item THEN item.Status ELSE ""),
   comments |-> 0]

\* a refresh button that carries the page number that was asked for
RefreshPage_requested(requested, page) == requested

\* the page number the refresh button carries
RefreshPage(requested, page) == page

\* build_page(items, page, item_type): the page shown, the page count, the
\* lines and the view buttons of the chunk in order, the navigation row, the
\* refresh button
BuildPage(items, requested, item_type) ==
  LET total == Len(items)
      pages == Max(1, CeilDiv(total, ITEMS_PER_PAGE))
      page == Max(1, Min(requested, pages))
      chunk == Chunk(items, PageStart(page))
      prev == IF page > 1
                THEN <<[label |-> "prev", typ |-> item_type, page |-> page - 1]>>
                ELSE <<>>
      next == IF page < pages
                THEN <<[label |-> "next", typ |-> item_type, page |-> page + 1]>>
                ELSE <<>>
  IN [page |-> page, pages |-> pages, total |-> total,
      lines |-> [j \in DOMAIN chunk |-> PageLine(chunk[j])],
      views |-> [j \in DOMAIN chunk |-> ViewButton(chunk[j])],
      nav |-> prev \o next,
      refresh |-> [typ |-> item_type, page |-> RefreshPage(requested, page)]]

\* the job queue's thread outside check_reminders
Idle == [pc |-> "idle", path |-> "", df |-> <<>>, at |-> 0, read |-> TRUE,
         sends |-> <<>>]

\* before build_page has been called
NoPage == [page |-> 0, pages |-> 0, total |-> 0, lines |-> <<>>,
           views |-> <<>>, nav |-> <<>>,
           refresh |-> [typ |-> "", page |-> 0]]
NoPager == [items |-> <<>>, page |-> 0, built |-> FALSE, shown |-> NoPage]

\* notify_user_status_change: one send, its failure logged and swallowed
NotifyUserStatusChange(user_id, ok) == Attempt(user_id, ok)

Did(op, caller, typ, id, status, result, writes, notified) ==
  [op |-> op, caller |-> caller, typ |-> typ, id |-> id, status |-> status,
   result |-> result, writes |-> writes, notified |-> notified]

\* every step is counted, up to the bound of the exploration
CountStep == steps < MaxSteps /\ steps' = steps + 1

\* a step of the store, the status handlers or archival: no dialogue input,
\* no list shown, nothing done by the job queue
CardStep ==
  CountStep /\ UNCHANGED <<conv, user_data, buttons, entered, pager, reminded, job>>

\* a step that sends no card
StoreStep == CardStep /\ cards' = <<>>

(***************************************************************************)
(* Initial state: init_files has created every table, empty.               *)
(***************************************************************************)
Init ==
  /\ file = [p \in FILES |-> <<>>]
  /\ cache = [p \in FILES |-> NoEntry]
  /\ assigned = [p \in IdFiles |-> <<>>]
  /\ last = Did("init", "", "", 0, "", "", {}, <<>>)
  /\ steps = 0
  /\ conv = END
  /\ user_data = <<>>
  /\ buttons = {}
  /\ entered = 0
  /\ pager = NoPager
  /\ cards = <<>>
  /\ reminded = <<>>
  /\ job = Idle

(***************************************************************************)
(* Inserts.                                                                *)
(***************************************************************************)
\* the body shared by save_application, save_hotel and add_comment on
\* store S: read, next_id, append the new row, write.  row is the new row
\* without its ID.  Result: the id, whether the write raised, the store.
InsertInto(S, path, row, fault) ==
  LET r == SafeRead(S, path, fault # "read")
      nid == NextId(r.df)
      df == Concat(r.df, [row EXCEPT !.ID = nid])
      w == SafeWrite(r.S, df, path, fault # "write")
  IN [nid |-> nid, raised |-> w.raised, S |-> w.S]

Insert(op, path, caller, row, fault) ==
  LET w == InsertInto(Store, path, row, fault)
      nid == w.nid
  IN /\ StoreStep
     /\ file' = w.S.file
     /\ cache' = w.S.cache
     /\ assigned' = IF w.raised THEN assigned
                    ELSE [assigned EXCEPT ![path] = Append(@, nid)]
     /\ last' = IF w.raised
                  THEN Did(op, "", "", 0, "", "failed", {}, <<>>)
                  ELSE Did(op, caller, "", nid, "", "saved", {path}, <<>>)

\* save_application(user, user_data)
SaveApplication(user, fault) ==
  Insert("save_application", APPLICATIONS_FILE, user,
         [ID |-> 0, UserID |-> user, Status |-> STATUSES.pending], fault)

\* save_hotel(user, user_data)
SaveHotel(user, fault) ==
  Insert("save_hotel", HOTELS_FILE, user,
         [ID |-> 0, UserID |-> user, Status |-> STATUSES.pending], fault)

\* add_comment(item_type, item_id, user_id, comment, is_internal)
AddComment(item_type, item_id, user_id, is_internal, fault) ==
  Insert("add_comment", COMMENTS_FILE, user_id,
         [ID |-> 0, ItemType |-> item_type, ItemID |-> item_id,
          UserID |-> user_id, IsInternal |-> is_internal], fault)

(***************************************************************************)
(* Cards.                                                                  *)
(***************************************************************************)
\* get_comments(item_type, item_id, include_internal) on store S: the rows
\* returned (the read of the file is taken to succeed)
GetComments(S, item_type, item_id, include_internal) ==
  LET df == SafeRead(S, COMMENTS_FILE, TRUE).df
      Kept(row) == /\ row.ItemType = item_type
                   /\ row.ItemID = item_id
                   /\ include_internal \/ ~row.IsInternal
  IN SelectSeq(df, Kept)

\* the safe_read of get_comments: the store afterwards
AfterCard(S) == SafeRead(S, COMMENTS_FILE, TRUE).S

\* format_application_card(record, for_admin): the status shown, its color
\* marker and the comment count; get_comments is called without
\* include_internal
FormatApplicationCard(S, record, for_admin) ==
  [view |-> "card", typ |-> "app", id |-> record.ID, for_admin |-> for_admin,
   status |-> record.Status,
   marker |-> StatusColor(record.Status),
   comments |-> Len(GetComments(S, "app", record.ID, FALSE))]

\* format_hotel_card(record, for_admin)
FormatHotelCard(S, record, for_admin) ==
  [view |-> "card", typ |-> "hotel", id |-> record.ID, for_admin |-> for_admin,
   status |-> record.Status,
   marker |-> StatusColor(record.Status),
   comments |-> Len(GetComments(S, "hotel", record.ID, FALSE))]

FormatCard(S, item_type, record, for_admin) ==
  IF item_type = "app" THEN FormatApplicationCard(S, record, for_admin)
  ELSE FormatHotelCard(S, record, for_admin)

\* cb_page_view, data "view_app:<id>" / "view_hotel:<id>"
CbPageView(caller, typ, sid, fault) ==
  LET path == FileOf(typ)
      r == SafeRead(Store, path, fault # "read")
      found == r.cols /\ IndexOf(r.df, sid) # {}
      S2 == IF found THEN AfterCard(r.S) ELSE r.S
  IN /\ CardStep
     /\ cards' = IF found
                  THEN <<FormatCard(r.S, typ, r.df[MinOf(IndexOf(r.df, sid))],
                                    FALSE)>>
                  ELSE <<>>
     /\ file' = S2.file
     /\ cache' = S2.cache
     /\ UNCHANGED assigned
     /\ last' = Did("view", "", "", 0, "",
                    IF ~r.cols THEN "raised_read"
                    ELSE IF found THEN "done" ELSE "not_found", {}, <<>>)

(***************************************************************************)
(* Status lifecycle.                                                       *)
(***************************************************************************)
\* lines 1492-1500 / 1507-1515 and 1180-1188 / 1205-1213: set the status of
\* the first row with the id in place, write the table, notify the owner.
\* r: the result of the handler's safe_read, in which the id was found.
OverwriteFirst(op, caller, typ, sid, status, r, fault) ==
  LET path == FileOf(typ)
      i == MinOf(IndexOf(r.df, sid))
      df == SetAt(r.df, i, status)
      w == SafeWrite(MutateCached(r.S, path, df), df, path, fault # "write")
  IN /\ file' = w.S.file
     /\ cache' = w.S.cache
     /\ last' = IF w.raised
                  THEN Did(op, caller, typ, sid, status, "raised_write", {}, <<>>)
                  ELSE Did(op, caller, typ, sid, status, "done", {path},
                           Attempt(df[i].UserID, fault # "notify"))

\* cmd_set_status: /set_status <typ> <sid> <status>
CmdSetStatus(caller, typ, sid, status, fault) ==
  LET r == SafeRead(Store, FileOf(typ), fault # "read")
      early(result, S) ==
        /\ file' = S.file
        /\ cache' = S.cache
        /\ last' = Did("set_status", caller, "", 0, "", result, {}, <<>>)
  IN /\ StoreStep
     /\ UNCHANGED assigned
     /\ IF caller # ADMIN_ID THEN early("denied", Store)
        ELSE IF typ \notin {"app", "hotel"} THEN early("bad_type", Store)
        ELSE IF ~r.cols THEN early("raised_read", r.S)
        ELSE IF IndexOf(r.df, sid) = {} THEN early("not_found", r.S)
        ELSE OverwriteFirst("set_status", caller, typ, sid, status, r, fault)

\* cb_cancel_app_by_id / cb_cancel_hotel_by_id, data "cancel_app:<id>" /
\* "cancel_hotel:<id>"
CbCancelById(caller, typ, sid, fault) ==
  LET r == SafeRead(Store, FileOf(typ), fault # "read")
      status == IF typ = "app" THEN CANCEL_APP_STATUS ELSE CANCEL_HOTEL_STATUS
      early(result, S) ==
        /\ file' = S.file
        /\ cache' = S.cache
        /\ last' = Did("cancel", "", "", 0, "", result, {}, <<>>)
  IN /\ StoreStep
     /\ UNCHANGED assigned
     /\ IF ~r.cols THEN early("raised_read", r.S)
        ELSE IF IndexOf(r.df, sid) = {} THEN early("not_found", r.S)
        ELSE OverwriteFirst("cancel", caller, typ, sid, status, r, fault)

\* cb_change_status, data "status:<typ>:<id>:<key>"
CbChangeStatus(caller, typ, sid, status_key, fault) ==
  LET path == FileOf(typ)
      r == SafeRead(Store, path, fault # "read")
      new_status == STATUSES[status_key]
      df == SetLoc(r.df, sid, new_status)
      w == SafeWrite(MutateCached(r.S, path, df), df, path, fault # "write")
      early(result, S) ==
        /\ file' = S.file
        /\ cache' = S.cache
        /\ last' = Did("change_status", "", "", 0, "", result, {}, <<>>)
      shown == /\ status_key \in DOMAIN STATUSES
               /\ typ \in {"app", "hotel"}
               /\ r.cols
               /\ IndexOf(r.df, sid) # {}
               /\ ~w.raised
  IN /\ CardStep
     /\ cards' = IF shown
                  THEN <<FormatCard(w.S, typ, df[MinOf(IndexOf(df, sid))], TRUE)>>
                  ELSE <<>>
     /\ UNCHANGED assigned
     /\ IF status_key \notin DOMAIN STATUSES THEN early("error_key", Store)
        ELSE IF typ \notin {"app", "hotel"} THEN early("ignored", Store)
        ELSE IF ~r.cols THEN early("error_read", r.S)
        ELSE IF IndexOf(r.df, sid) = {} THEN early("ignored", r.S)
        ELSE IF w.raised
          THEN /\ file' = w.S.file
               /\ cache' = w.S.cache
               /\ last' = Did("change_status", caller, typ, sid, new_status,
                              "error_write", {}, <<>>)
          ELSE /\ file' = AfterCard(w.S).file
               /\ cache' = AfterCard(w.S).cache
               /\ last' = Did("change_status", caller, typ, sid, new_status,
                              "done", {path},
                              NotifyUserStatusChange(
                                r.df[MinOf(IndexOf(r.df, sid))].UserID,
                                fault # "notify"))

(***************************************************************************)
(* Archival.                                                               *)
(***************************************************************************)
\* archive_item(item_type, item_id) on store S: [ok, S, writes]
ArchiveItem(S, item_type, item_id, fault) ==
  LET source_file == FileOf(item_type)
      r == SafeRead(S, source_file, fault # "read")
      item == r.df[MinOf(IndexOf(r.df, item_id))]
      a == SafeRead(r.S, ARCHIVE_FILE, fault # "read_archive")
      archived_item == [Type |-> item_type, ID |-> item_id,
                        UserID |-> item.UserID, Data |-> item]
      w1 == SafeWrite(a.S, Append(a.df, archived_item), ARCHIVE_FILE,
                      fault # "write_archive")
      w2 == SafeWrite(w1.S, Filter(r.df, item_id), source_file,
                      fault # "write_source")
  IN IF ~r.cols THEN [ok |-> FALSE, S |-> r.S, writes |-> {}]
     ELSE IF IndexOf(r.df, item_id) = {}
       THEN [ok |-> FALSE, S |-> r.S, writes |-> {}]
     ELSE IF w1.raised THEN [ok |-> FALSE, S |-> w1.S, writes |-> {}]
     ELSE IF w2.raised
       THEN [ok |-> FALSE, S |-> w2.S, writes |-> {ARCHIVE_FILE}]
     ELSE [ok |-> TRUE, S |-> w2.S, writes |-> {ARCHIVE_FILE, source_file}]

\* cb_archive_item, data "archive:<typ>:<id>"
CbArchiveItem(caller, typ, sid, fault) ==
  LET res == ArchiveItem(Store, typ, sid, fault)
      \* on success the handler reads the source table again
      S2 == IF res.ok THEN SafeRead(res.S, FileOf(typ), TRUE).S ELSE res.S
  IN /\ StoreStep
     /\ UNCHANGED assigned
     /\ IF caller # ADMIN_ID
          THEN /\ UNCHANGED <<file, cache>>
               /\ last' = Did("archive", caller, "", 0, "", "denied", {}, <<>>)
          ELSE /\ file' = S2.file
               /\ cache' = S2.cache
               /\ last' = Did("archive", caller, typ, sid, "",
                              IF res.ok THEN "archived" ELSE "failed",
                              res.writes, <<>>)

(***************************************************************************)
(* The clock.                                                              *)
(***************************************************************************)
Older(e, d) == IF e.age + d > CACHE_TTL THEN [e EXCEPT !.age = CACHE_TTL]
               ELSE [e EXCEPT !.age = @ + d]

\* d minutes pass between two handlers
TimePasses(d) ==
  /\ StoreStep
  /\ \E p \in FILES : cache[p].present /\ cache[p].age < CACHE_TTL
  /\ cache' = [p \in FILES |-> IF cache[p].present THEN Older(cache[p], d)
                                ELSE cache[p]]
  /\ UNCHANGED <<file, assigned, last>>

(***************************************************************************)
(* Specification.                                                          *)
(***************************************************************************)
StatusFaults == {"none", "read", "write", "notify"}
InsertFaults == {"none", "read", "write"}
ArchiveFaults == {"none", "read", "read_archive", "write_archive", "write_source"}

Next ==
  \/ \E u \in Submitters, f \in InsertFaults : SaveApplication(u, f)
  \/ \E u \in Submitters, f \in InsertFaults : SaveHotel(u, f)
  \/ \E b \in BOOLEAN, f \in InsertFaults : AddComment("app", 1, ADMIN_ID, b, f)
  \/ \E u \in Users, t \in ItemTypes, i \in Ids, f \in {"none", "read"} :
       CbPageView(u, t, i, f)
  \/ \E u \in Users, t \in ItemTypes \cup {"train"}, i \in Ids,
        s \in StatusTexts, f \in StatusFaults : CmdSetStatus(u, t, i, s, f)
  \/ \E u \in Users, t \in ItemTypes, i \in Ids, k \in StatusKeys,
        f \in StatusFaults : CbChangeStatus(u, t, i, k, f)
  \/ \E u \in Users, t \in ItemTypes, i \in Ids, f \in StatusFaults :
       CbCancelById(u, t, i, f)
  \/ \E u \in Users, t \in ItemTypes, i \in Ids, f \in ArchiveFaults :
       CbArchiveItem(u, t, i, f)
  \/ \E d \in Elapsed : TimePasses(d)

Spec == Init /\ [][Next]_vars

(***************************************************************************)
(* Dates and texts of the dialogues.                                       *)
(***************************************************************************)
\* a date is a day number: 1 is 30.11.2025, 2 is 01.12.2025, ..., 7 is
\* 06.12.2025
DateTexts ==
  <<"30.11.2025", "01.12.2025", "02.12.2025", "03.12.2025", "04.12.2025",
    "05.12.2025", "06.12.2025">>
Days == DOMAIN DateTexts

\* datetime.now().date()
TODAY == 2

\* DATE_RE.findall(text): the tokens d{1,2}.d{1,2}.dddd of a text, in order
FindAll(text) ==
  CASE text = "30.11.2025" -> <<"30.11.2025">>
    [] text = "1.12.2025 utrom" -> <<"1.12.2025">>
    [] text = "02.12.2025" -> <<"02.12.2025">>
    [] text = "31.11.2025" -> <<"31.11.2025">>
    [] text = "1.12.2025 - 2.12.2025" -> <<"1.12.2025", "2.12.2025">>
    [] text = "30.11.2025 - 02.12.2025" -> <<"30.11.2025", "02.12.2025">>
    [] text = "02.12.2025 - 1.12.2025" -> <<"02.12.2025", "1.12.2025">>
    [] text = "1.12.2025 - 01.12.2025" -> <<"1.12.2025", "01.12.2025">>
    [] OTHER -> <<>>

\* datetime.strptime(token, "%d.%m.%Y").date(): leading zeros are optional;
\* a token that is no calendar date raises ValueError
Strptime(token) ==
  CASE token \in {"30.11.2025"} -> [raised |-> FALSE, d |-> 1]
    [] token \in {"1.12.2025", "01.12.2025"} -> [raised |-> FALSE, d |-> 2]
    [] token \in {"2.12.2025", "02.12.2025"} -> [raised |-> FALSE, d |-> 3]
    [] token \in {"3.12.2025", "03.12.2025"} -> [raised |-> FALSE, d |-> 4]
    [] token \in {"4.12.2025", "04.12.2025"} -> [raised |-> FALSE, d |-> 5]
    [] token \in {"5.12.2025", "05.12.2025"} -> [raised |-> FALSE, d |-> 6]
    [] token \in {"6.12.2025", "06.12.2025"} -> [raised |-> FALSE, d |-> 7]
    [] OTHER -> [raised |-> TRUE, d |-> 0]

\* d.strftime("%d.%m.%Y")
Strftime(d) == DateTexts[d]

\* the time-of-day word of a text, None without one
TimeOfDayIn(text) == IF text = "1.12.2025 utrom" THEN "utrom" ELSE None

\* parse_single_date(text): the first token as a date and the time of day
ParseSingleDate(text) ==
  LET m == FindAll(text)
  IN IF m = <<>> THEN [raised |-> TRUE, d |-> 0, tod |-> None]
     ELSE [raised |-> Strptime(m[1]).raised, d |-> Strptime(m[1]).d,
           tod |-> TimeOfDayIn(text)]

\* parse_date_range(text): the first two tokens as check-in and check-out
ParseDateRange(text) ==
  LET dates == FindAll(text)
  IN IF Len(dates) < 2 THEN [raised |-> TRUE, checkin |-> 0, checkout |-> 0]
     ELSE [raised |-> Strptime(dates[1]).raised \/ Strptime(dates[2]).raised,
           checkin |-> Strptime(dates[1]).d, checkout |-> Strptime(dates[2]).d]

\* is_future_or_today that allows every day
IsFutureOrToday_any(d) == TRUE

\* is_future_or_today that takes tomorrow as the first day allowed
IsFutureOrToday_strict(d) == d > TODAY

\* is_future_or_today(d)
IsFutureOrToday(d) == d >= TODAY

\* original_route.split(" - ")
SplitRoute(route) ==
  CASE route = "Samarkand - Tashkent" -> <<"Samarkand", "Tashkent">>
    [] route = "Tashkent - Samarkand" -> <<"Tashkent", "Samarkand">>
    [] OTHER -> <<route>>

\* len(text.split()): the number of words
WordCount(text) ==
  CASE text = "Ivan Petrov" -> 2
    [] text = "Samarkand - Tashkent" -> 3
    [] OTHER -> 1

\* POPULAR_ROUTES (the first entry)
POPULAR_ROUTES == <<"Samarkand - Tashkent">>

(***************************************************************************)
(* The draft: context.user_data, a dict.                                   *)
(***************************************************************************)
\* d.get(k, default)
Get(d, k, default) == IF k \in DOMAIN d THEN d[k] ELSE default
\* d[k] = v
Put(d, k, v) == [x \in DOMAIN d \cup {k} |-> IF x = k THEN v ELSE d[x]]
\* truth value of a text or None
Truthy(v) == v \notin {"", None}

\* the user of the dialogue
Customer == "101"

\* conversation states that no handler returns and no state table names
BROADCAST == "BROADCAST"
TEMPLATE_NAME == "TEMPLATE_NAME"
TEMPLATE_DATA == "TEMPLATE_DATA"
GROUP_MEMBERS == "GROUP_MEMBERS"
GROUP_CONFIRM == "GROUP_CONFIRM"

\* conversation states
NAME == "NAME"
PASSPORT == "PASSPORT"
ROUTE == "ROUTE"
DATE_STR == "DATE_STR"
RETURN_DATE == "RETURN_DATE"
REASON == "REASON"
CONFIRM == "CONFIRM"
HOTEL_CITY == "HOTEL_CITY"
HOTEL_DATERANGE == "HOTEL_DATERANGE"
HOTEL_ROOM_TYPE == "HOTEL_ROOM_TYPE"

\* a run goes on until MaxSaved records have been saved
Running ==
  Len(file[APPLICATIONS_FILE]) + Len(file[HOTELS_FILE]) < MaxSaved

\* what a message or tap of the dialogue leaves alone
DialogueStep == Running /\ UNCHANGED <<steps, pager, cards, reminded, job>>

\* the handler answered with result
Answered(op, result) == Did(op, Customer, "", 0, "", result, {}, <<>>)

\* save_user_profile(user, user_data) on store S: the store afterwards
SaveUserProfile(S, uid, d) ==
  LET r == SafeRead(S, USERS_FILE, TRUE)
      existing == {i \in DOMAIN r.df : r.df[i].UserID = uid}
      new_user == [UserID |-> uid, FIO |-> Get(d, "name", ""),
                   PassportFileID |-> Get(d, "passport", "")]
      idx == MinOf(existing)
      df1 == IF Truthy(Get(d, "name", None))
               THEN [r.df EXCEPT ![idx].FIO = d["name"]] ELSE r.df
      df2 == IF Truthy(Get(d, "passport", None))
               THEN [df1 EXCEPT ![idx].PassportFileID = d["passport"]] ELSE df1
  IN IF existing = {}
       THEN SafeWrite(r.S, Append(r.df, new_user), USERS_FILE, TRUE).S
       ELSE SafeWrite(MutateCached(r.S, USERS_FILE, df2), df2, USERS_FILE, TRUE).S

\* the entry of cb_start_app / cb_start_hotel: the name on file, if any, is
\* put into the draft and the name step is skipped
Enter(op, skip_to) ==
  LET r == SafeRead(Store, USERS_FILE, TRUE)
      row == {i \in DOMAIN r.df : r.df[i].UserID = Customer}
      fio == r.df[MinOf(row)].FIO
      on_file == row # {} /\ Truthy(fio)
  IN /\ DialogueStep
     /\ entered < MaxEntries
     /\ entered' = entered + 1
     /\ file' = r.S.file
     /\ cache' = r.S.cache
     /\ user_data' = IF on_file THEN Put(user_data, "name", fio) ELSE user_data
     /\ conv' = IF on_file THEN skip_to ELSE NAME
     /\ last' = Answered(op, IF on_file THEN "prefilled" ELSE "ask_name")
     /\ UNCHANGED <<assigned, buttons>>

\* cb_start_app: entry point, also of a conversation that is under way
CbStartApp == Enter("start_app", PASSPORT)

\* cb_start_hotel
CbStartHotel == Enter("start_hotel", HOTEL_CITY)

\* flow_name: state NAME, a text
FlowName(text) ==
  LET d == Put(user_data, "name", text)
      S == SaveUserProfile(Store, Customer, d)
  IN /\ DialogueStep
     /\ conv = NAME
     /\ user_data' = d
     /\ file' = S.file
     /\ cache' = S.cache
     /\ conv' = PASSPORT
     /\ last' = Answered("flow_name", "accepted")
     /\ UNCHANGED <<assigned, buttons, entered>>

\* flow_passport: state PASSPORT; msg is a photo, a document or a text
FlowPassport(msg) ==
  LET file_id == IF msg.photo # None THEN msg.photo ELSE msg.document
      has_file == msg.photo # None \/ msg.document # None
      new_name == ~has_file /\ msg.text # None /\ WordCount(msg.text) >= 2
      d == IF has_file THEN Put(user_data, "passport", file_id)
           ELSE IF new_name THEN Put(user_data, "name", msg.text)
           ELSE user_data
      S == IF has_file \/ new_name THEN SaveUserProfile(Store, Customer, d)
           ELSE Store
  IN /\ DialogueStep
     /\ conv = PASSPORT
     /\ user_data' = d
     /\ file' = S.file
     /\ cache' = S.cache
     /\ buttons' = IF has_file THEN buttons \cup {"route"} ELSE buttons
     /\ conv' = IF has_file THEN ROUTE ELSE PASSPORT
     /\ last' = Answered("flow_passport",
                         IF has_file THEN "accepted"
                         ELSE IF new_name THEN "name" ELSE "rejected")
     /\ UNCHANGED <<assigned, entered>>

\* handle_route_selection: state ROUTE, a tap on "route_custom" or on
\* "route_select:<route>"; data is q.data.split(":")
HandleRouteSelection(data) ==
  /\ DialogueStep
  /\ conv = ROUTE
  /\ "route" \in buttons
  /\ IF data = <<"route_custom">>
       THEN /\ conv' = ROUTE
            /\ last' = Answered("handle_route_selection", "custom")
            /\ UNCHANGED <<user_data, buttons>>
       ELSE /\ user_data' = Put(user_data, "route", data[2])
            /\ buttons' = buttons \cup {"return"}
            /\ conv' = RETURN_DATE
            /\ last' = Answered("handle_route_selection", "selected")
  /\ UNCHANGED <<file, cache, assigned, entered>>

\* flow_route: state ROUTE, a text
FlowRoute(text) ==
  /\ DialogueStep
  /\ conv = ROUTE
  /\ user_data' = Put(user_data, "route", text)
  /\ buttons' = buttons \cup {"return"}
  /\ conv' = RETURN_DATE
  /\ last' = Answered("flow_route", "accepted")
  /\ UNCHANGED <<file, cache, assigned, entered>>

\* handle_return_ticket: state RETURN_DATE, a tap on "return_yes" or
\* "return_no"
HandleReturnTicket(data) ==
  /\ DialogueStep
  /\ conv = RETURN_DATE
  /\ "return" \in buttons
  /\ user_data' = Put(user_data, "is_round_trip", data # "return_no")
  /\ conv' = DATE_STR
  /\ last' = Answered("handle_return_ticket", data)
  /\ UNCHANGED <<file, cache, assigned, buttons, entered>>

\* flow_date: state DATE_STR, a text
FlowDate(text) ==
  LET p == ParseSingleDate(text)
      past == ~p.raised /\ ~IsFutureOrToday(p.d)
      accepted == ~p.raised /\ ~past
      d1 == Put(user_data, "date", Strftime(p.d))
      d2 == Put(d1, "date_raw", text)
      d3 == Put(d2, "time_of_day", IF p.tod # None THEN p.tod ELSE "")
  IN /\ DialogueStep
     /\ conv = DATE_STR
     /\ user_data' = IF accepted THEN d3 ELSE user_data
     /\ conv' = IF ~accepted THEN DATE_STR
                ELSE IF Get(user_data, "is_round_trip", FALSE) THEN RETURN_DATE
                ELSE REASON
     /\ last' = Answered("flow_date",
                         IF p.raised THEN "rejected_format"
                         ELSE IF past THEN "rejected_past" ELSE "accepted")
     /\ UNCHANGED <<file, cache, assigned, buttons, entered>>

\* f"{parts[1]} - {parts[0]}"
ReverseRoute(parts) == parts[2] \o " - " \o parts[1]

\* flow_return_date: state RETURN_DATE, a text
FlowReturnDate(text) ==
  LET p == ParseSingleDate(text)
      departure_date_str == Get(user_data, "date", "")
      departure == Strptime(departure_date_str)
      early == /\ ~p.raised
               /\ Truthy(departure_date_str)
               /\ ~departure.raised
               /\ p.d <= departure.d
      accepted == ~p.raised /\ ~early
      d1 == Put(user_data, "return_date", Strftime(p.d))
      d2 == Put(d1, "return_time_of_day", IF p.tod # None THEN p.tod ELSE "")
      parts == SplitRoute(Get(user_data, "route", ""))
      d3 == IF Len(parts) = 2 THEN Put(d2, "return_route", ReverseRoute(parts))
            ELSE d2
  IN /\ DialogueStep
     /\ conv = RETURN_DATE
     /\ user_data' = IF accepted THEN d3 ELSE user_data
     /\ conv' = IF accepted THEN REASON ELSE RETURN_DATE
     /\ last' = Answered("flow_return_date",
                         IF p.raised THEN "rejected_format"
                         ELSE IF early THEN "rejected_order" ELSE "accepted")
     /\ UNCHANGED <<file, cache, assigned, buttons, entered>>

\* flow_reason: state REASON, a text; the confirmation card is shown
FlowReason(text) ==
  /\ DialogueStep
  /\ conv = REASON
  /\ user_data' = Put(user_data, "reason", text)
  /\ buttons' = buttons \cup {"confirm"}
  /\ conv' = CONFIRM
  /\ last' = Answered("flow_reason", "accepted")
  /\ UNCHANGED <<file, cache, assigned, entered>>

\* the new_app row of save_application (the timestamp and the submitter's
\* display names are left out)
NewApplication(user, d, status) ==
  [ID |-> 0, UserID |-> user,
   FIO |-> Get(d, "name", ""),
   PassportFileID |-> Get(d, "passport", ""),
   Route |-> Get(d, "route", ""),
   Date |-> Get(d, "date", ""),
   TimeOfDay |-> Get(d, "time_of_day", ""),
   Reason |-> Get(d, "reason", ""),
   Status |-> status,
   ReturnRoute |-> Get(d, "return_route", ""),
   ReturnDate |-> Get(d, "return_date", ""),
   IsRoundTrip |-> Get(d, "is_round_trip", FALSE)]

\* the new_hotel row of save_hotel
NewHotel(user, d, status) ==
  [ID |-> 0, UserID |-> user,
   FIO |-> Get(d, "name", ""),
   HotelCity |-> Get(d, "hotel_city", ""),
   CheckIn |-> Get(d, "hotel_checkin_raw", ""),
   CheckOut |-> Get(d, "hotel_checkout_raw", ""),
   RoomType |-> Get(d, "hotel_room_type", ""),
   Status |-> status]

\* the draft that keeps every key
Preserved_all(d) == d

\* preserved = {k: context.user_data.get(k) for k in ("name", "passport")}
Preserved(d) == [k \in {"name", "passport"} |-> Get(d, k, None)]

\* the sends of a confirmation in which the submitter gets the summary too
ConfirmNotifications_user(d, ok) ==
  <<[to |-> ADMIN_ID, ok |-> ok, kind |-> "summary"],
    [to |-> Customer, ok |-> ok, kind |-> "summary"]>>

\* cb_confirm_app's sends to the administrator, in one try block: the
\* summary, then the passport image if the draft holds one; a send that
\* raises ends the block
ConfirmNotifications(d, ok) ==
  <<[to |-> ADMIN_ID, ok |-> ok, kind |-> "summary"]>>
  \o (IF ok /\ Truthy(Get(d, "passport", None))
        THEN <<[to |-> ADMIN_ID, ok |-> TRUE, kind |-> "photo"]>> ELSE <<>>)

\* cb_confirm_app: a tap on "confirm_app".  In state CONFIRM the conversation
\* handler runs it and the conversation ends; in every other state the
\* conversation handler has no handler for the tap and the dispatcher runs
\* the handler registered outside the conversation, whose return value is
\* dropped.
CbConfirmApp(fault) ==
  LET w == InsertInto(Store, APPLICATIONS_FILE,
                      NewApplication(Customer, user_data, STATUSES.pending),
                      fault)
  IN /\ DialogueStep
     /\ "confirm" \in buttons
     /\ file' = w.S.file
     /\ cache' = w.S.cache
     /\ assigned' = IF w.raised THEN assigned
                    ELSE [assigned EXCEPT ![APPLICATIONS_FILE] = Append(@, w.nid)]
     /\ buttons' = buttons \ {"confirm"}
     /\ user_data' = Preserved(user_data)
     /\ conv' = IF conv = CONFIRM THEN END ELSE conv
     /\ last' = Did("confirm_app", Customer, "app",
                    IF w.raised THEN 0 ELSE w.nid, "",
                    IF w.raised THEN "failed" ELSE "saved",
                    IF w.raised THEN {} ELSE {APPLICATIONS_FILE},
                    ConfirmNotifications(user_data, fault # "notify"))
     /\ UNCHANGED entered

\* cb_cancel_app: a tap on "cancel_app", dispatched like "confirm_app"
CbCancelApp ==
  /\ DialogueStep
  /\ "confirm" \in buttons
  /\ buttons' = buttons \ {"confirm"}
  /\ conv' = IF conv = CONFIRM THEN END ELSE conv
  /\ last' = Answered("cancel_app", "cancelled")
  /\ UNCHANGED <<file, cache, assigned, user_data, entered>>

\* flow_hotel_city: state HOTEL_CITY, a text (none of the texts drawn holds
\* an "@"): a text of two words or more is taken as a new name
FlowHotelCity(text) ==
  LET is_name == WordCount(text) >= 2
      d == Put(user_data, IF is_name THEN "name" ELSE "hotel_city", text)
      S == IF is_name THEN SaveUserProfile(Store, Customer, d) ELSE Store
  IN /\ DialogueStep
     /\ conv = HOTEL_CITY
     /\ user_data' = d
     /\ file' = S.file
     /\ cache' = S.cache
     /\ conv' = IF is_name THEN HOTEL_CITY ELSE HOTEL_DATERANGE
     /\ last' = Answered("flow_hotel_city", IF is_name THEN "name" ELSE "accepted")
     /\ UNCHANGED <<assigned, buttons, entered>>

\* flow_hotel_daterange: state HOTEL_DATERANGE, a text
FlowHotelDaterange(text) ==
  LET p == ParseDateRange(text)
      past == ~p.raised
              /\ ~(IsFutureOrToday(p.checkin) /\ IsFutureOrToday(p.checkout))
      order == ~p.raised /\ ~past /\ p.checkout <= p.checkin
      accepted == ~p.raised /\ ~past /\ ~order
      d1 == Put(user_data, "hotel_checkin_raw", Strftime(p.checkin))
      d2 == Put(d1, "hotel_checkout_raw", Strftime(p.checkout))
      d3 == Put(d2, "hotel_date",
                Strftime(p.checkin) \o " - " \o Strftime(p.checkout))
  IN /\ DialogueStep
     /\ conv = HOTEL_DATERANGE
     /\ user_data' = IF accepted THEN d3 ELSE user_data
     /\ buttons' = IF accepted THEN buttons \cup {"room"} ELSE buttons
     /\ conv' = IF accepted THEN HOTEL_ROOM_TYPE ELSE HOTEL_DATERANGE
     /\ last' = Answered("flow_hotel_daterange",
                         IF p.raised THEN "rejected_format"
                         ELSE IF past THEN "rejected_past"
                         ELSE IF order THEN "rejected_order" ELSE "accepted")
     /\ UNCHANGED <<file, cache, assigned, entered>>

\* mapping.get(q.data, "Ne ukazano") of cb_hotel_room_type
RoomTypeOf(data) ==
  CASE data = "room_single" -> "Odnomestnyj"
    [] data = "room_double" -> "Dvuhmestnyj"
    [] data = "room_family" -> "Semejnyj"
    [] data = "room_luxury" -> "Biznes-lyuks"
    [] OTHER -> "Ne ukazano"

\* cb_hotel_room_type: a tap on "room_...".  In state HOTEL_ROOM_TYPE the
\* conversation handler runs it and the conversation ends; in every other
\* state the dispatcher runs the handler registered outside the conversation.
CbHotelRoomType(data, fault) ==
  LET d == Put(user_data, "hotel_room_type", RoomTypeOf(data))
      w == InsertInto(Store, HOTELS_FILE,
                      NewHotel(Customer, d, STATUSES.pending), fault)
  IN /\ DialogueStep
     /\ "room" \in buttons
     /\ user_data' = d
     /\ file' = w.S.file
     /\ cache' = w.S.cache
     /\ assigned' = IF w.raised THEN assigned
                    ELSE [assigned EXCEPT ![HOTELS_FILE] = Append(@, w.nid)]
     /\ buttons' = buttons \ {"room"}
     /\ conv' = IF conv = HOTEL_ROOM_TYPE THEN END ELSE conv
     /\ last' = Did("hotel_room_type", Customer, "hotel",
                    IF w.raised THEN 0 ELSE w.nid, "",
                    IF w.raised THEN "failed" ELSE "saved",
                    IF w.raised THEN {} ELSE {HOTELS_FILE},
                    <<[to |-> ADMIN_ID, ok |-> fault # "notify",
                       kind |-> "summary"]>>)
     /\ UNCHANGED entered

(***************************************************************************)
(* Dialogue: the inputs of one user.                                       *)
(***************************************************************************)
NameTexts == {"Ivan Petrov"}
PassportMessages ==
  {[photo |-> "AgAC-photo", document |-> None, text |-> None],
   [photo |-> None, document |-> None, text |-> "Ivan Petrov"],
   [photo |-> None, document |-> None, text |-> "pasport"]}
RouteTaps == {<<"route_custom">>, <<"route_select", POPULAR_ROUTES[1]>>}
RouteTexts == {"Termez"}
ReturnTaps == {"return_yes", "return_no"}
DateInputs ==
  {"30.11.2025", "1.12.2025 utrom", "02.12.2025", "31.11.2025", "zavtra"}
ReasonTexts == {"komandirovka"}
CityTexts == {"Ivan Petrov", "Buhara"}
RangeInputs ==
  {"1.12.2025 - 2.12.2025", "30.11.2025 - 02.12.2025",
   "02.12.2025 - 1.12.2025", "1.12.2025 - 01.12.2025", "1.12.2025 utrom"}
RoomTaps == {"room_single"}
ConfirmFaults == {"none", "write", "notify"}

DialogueNext ==
  \/ CbStartApp
  \/ CbStartHotel
  \/ \E t \in NameTexts : FlowName(t)
  \/ \E m \in PassportMessages : FlowPassport(m)
  \/ \E q \in RouteTaps : HandleRouteSelection(q)
  \/ \E t \in RouteTexts : FlowRoute(t)
  \/ \E q \in ReturnTaps : HandleReturnTicket(q)
  \/ \E t \in DateInputs : FlowDate(t)
  \/ \E t \in DateInputs : FlowReturnDate(t)
  \/ \E t \in ReasonTexts : FlowReason(t)
  \/ \E f \in ConfirmFaults : CbConfirmApp(f)
  \/ CbCancelApp
  \/ \E t \in CityTexts : FlowHotelCity(t)
  \/ \E t \in RangeInputs : FlowHotelDaterange(t)
  \/ \E q \in RoomTaps, f \in ConfirmFaults : CbHotelRoomType(q, f)

Dialogue == Init /\ [][DialogueNext]_vars

(***************************************************************************)
(* Pages: build_page on lists of every length up to MaxItems.              *)
(***************************************************************************)
\* the combined list of a user: applications and hotel bookings in turn,
\* each kind numbered from 1
ItemOf(i) ==
  IF i % 2 = 1 THEN [ID |-> (i + 1) \div 2, Route |-> "Samarkand - Tashkent"]
  ELSE [ID |-> i \div 2, HotelCity |-> "Buhara"]
ItemsOf(n) == [i \in 1..n |-> ItemOf(i)]

\* page numbers carried by "page:<typ>:<p>" callbacks, also of stale buttons
PageRequests == {-1, 0, 1, 2, 3, 4, 99}

PagesInit ==
  /\ file = [p \in FILES |-> <<>>]
  /\ cache = [p \in FILES |-> NoEntry]
  /\ assigned = [p \in IdFiles |-> <<>>]
  /\ last = Did("init", "", "", 0, "", "", {}, <<>>)
  /\ steps = 0
  /\ conv = END
  /\ user_data = <<>>
  /\ buttons = {}
  /\ entered = 0
  /\ \E n \in 0..MaxItems, p \in PageRequests :
       pager = [items |-> ItemsOf(n), page |-> p, built |-> FALSE,
                shown |-> NoPage]
  /\ cards = <<>>
  /\ reminded = <<>>
  /\ job = Idle

PagesFrame ==
  UNCHANGED <<file, cache, assigned, last, steps, conv, user_data, buttons,
              entered, cards, reminded, job>>

\* the list is shown at the page asked for
ShowPage ==
  /\ ~pager.built
  /\ pager' = [pager EXCEPT !.built = TRUE,
                             !.shown = BuildPage(pager.items, pager.page,
                                                 "application")]
  /\ PagesFrame

\* cb_page_view, data "page:<typ>:<p>" of the previous or next button of the
\* page shown: build_page on the kept list
CbPageTurn(b) ==
  /\ pager.built
  /\ b \in 1..Len(pager.shown.nav)
  /\ pager' = [pager EXCEPT !.page = pager.shown.nav[b].page,
                             !.shown = BuildPage(pager.items,
                                                 pager.shown.nav[b].page,
                                                 pager.shown.nav[b].typ)]
  /\ PagesFrame

PagesNext ==
  \/ ShowPage
  \/ \E b \in 1..2 : CbPageTurn(b)

Pages == PagesInit /\ [][PagesNext]_vars

(***************************************************************************)
(* Properties.                                                             *)
(***************************************************************************)
\* what safe_read(p) returns in the current state when the file can be read
ReadRows(p) == SafeRead(Store, p, TRUE).df

\* every row inserted into p is still in it: nothing was removed from p
NoDeletion(p) == Len(file[p]) = Len(assigned[p])

StrictlyIncreasing(s) == \A i, j \in DOMAIN s : i < j => s[i] < s[j]

\* C1: for every id-numbered table, next_id of the table as read is 1 while
\* the table is empty, and N+1 after N successful inserts
\* (save_application / save_hotel / add_comment) with no deletion.
C1_NextIdAfterInserts ==
  \A p \in IdFiles :
    /\ ReadRows(p) = <<>> => NextId(ReadRows(p)) = 1
    /\ NoDeletion(p) => NextId(ReadRows(p)) = Len(assigned[p]) + 1

C1_Witness ==
  \E p \in IdFiles : NoDeletion(p) /\ Len(assigned[p]) = 3 /\ Len(ReadRows(p)) = 3

\* C2: the ids assigned to ticket applications are unique and strictly
\* increasing in assignment order: a submission that appends its row to the
\* table gets an id above every id assigned before, also after the
\* application holding the highest id has been archived.
C2_IdsNeverReused ==
  [][(/\ last'.op = "save_application"
      /\ last'.result = "saved"
      /\ Len(file'[APPLICATIONS_FILE]) = Len(file[APPLICATIONS_FILE]) + 1)
     => \A k \in DOMAIN assigned[APPLICATIONS_FILE] :
          assigned[APPLICATIONS_FILE][k] < last'.id]_vars

ReadView == [p \in FILES |-> ReadRows(p)]

\* C4: when the table write of a status-changing handler (set-status, status
\* shortcut, owner cancel) fails, reads through the store return the same
\* rows after the handler as before it.
C4_FailedWriteLeavesReadsUnchanged ==
  [][last'.result \in {"raised_write", "error_write"} => ReadView' = ReadView]_vars

\* the row with id sid of table p as safe_read returns it has this status
ReadsStatus(p, sid, status) ==
  \E i \in DOMAIN ReadRows(p) :
    ReadRows(p)[i].ID = sid /\ ReadRows(p)[i].Status = status

\* C5: after a set-status command on an existing record, with any prior
\* status and any new text, a read returns exactly the new text as the
\* record's status.
C5_StatusReadBackVerbatim ==
  (last.op = "set_status" /\ last.result = "done")
    => ReadsStatus(FileOf(last.typ), last.id, last.status)

\* the last handler was a set-status command or a status shortcut whose
\* table write succeeded
StatusWritten == last.op \in {"set_status", "change_status"} /\ last.writes # {}

\* C6: a successful status write is followed by exactly one attempt to
\* notify the record's owner; whether or not that attempt succeeds, the
\* handler completes and the stored status is the new value.
C6_OneNotificationNoRollback ==
  StatusWritten =>
    /\ last.result = "done"
    /\ Len(last.notified) = 1
    /\ \E i \in DOMAIN file[FileOf(last.typ)] :
         LET row == file[FileOf(last.typ)][i]
         IN /\ row.ID = last.id
            /\ row.Status = last.status
            /\ row.UserID = last.notified[1].to

\* a status was written and the notification of the owner failed
C6_Witness ==
  StatusWritten /\ Len(last.notified) = 1 /\ ~last.notified[1].ok

ArchiveEntries(typ, sid) ==
  {i \in DOMAIN file[ARCHIVE_FILE] :
     file[ARCHIVE_FILE][i].Type = typ /\ file[ARCHIVE_FILE][i].ID = sid}

\* C7: after archive_item(type, id) has succeeded the record is absent from
\* its live table, the archive holds exactly one entry with that type and
\* id, and a second archive_item on the same type and id returns False and
\* adds no archive entry.
C7_ArchivedExactlyOnce ==
  (last.op = "archive" /\ last.result = "archived") =>
    LET again == ArchiveItem(Store, last.typ, last.id, "none")
    IN /\ IndexOf(file[FileOf(last.typ)], last.id) = {}
       /\ Cardinality(ArchiveEntries(last.typ, last.id)) = 1
       /\ ~again.ok
       /\ again.S.file[ARCHIVE_FILE] = file[ARCHIVE_FILE]

\* C8: once archive_item has returned, with success or after a failed write,
\* no record is both in its live table and in the archive.
C8_ArchiveAllOrNothing ==
  last.op = "archive" =>
    \A i \in DOMAIN file[ARCHIVE_FILE] :
      IndexOf(file[FileOf(file[ARCHIVE_FILE][i].Type)],
              file[ARCHIVE_FILE][i].ID) = {}

\* C9: a set-status command or status shortcut from a caller who is not the
\* administrator changes no stored record and notifies nobody.
C9_NonAdminStatusChangeRefused ==
  [][(last'.op \in {"set_status", "change_status"} /\ last'.caller # ADMIN_ID)
     => file' = file /\ last'.notified = <<>>]_vars

\* C10: a self-service cancel changes a record only when the caller owns
\* it; a cancel by another non-administrator user leaves the table
\* unchanged.
C10_CancelOnlyByOwner ==
  [][(/\ last'.op = "cancel"
      /\ last'.result = "done"
      /\ last'.caller # ADMIN_ID
      /\ last'.caller # last'.notified[1].to)
     => file' = file]_vars

(***************************************************************************)
(* Properties of build_page (under Pages).                                 *)
(***************************************************************************)
\* C15: the page count of build_page is the ceiling of total / 5 and at
\* least 1 (1 for the empty list), and the page shown is the requested page
\* clamped into [1, page count]: page 1 for a request below 1, the last page
\* for a request above the page count.
C15_PageCountAndClamp ==
  pager.built =>
    LET total == Len(pager.items)
        pages == pager.shown.pages
    IN /\ pages >= 1
       /\ ITEMS_PER_PAGE * pages >= total
       /\ pages > 1 => ITEMS_PER_PAGE * (pages - 1) < total
       /\ pager.shown.page = IF pager.page < 1 THEN 1
                             ELSE IF pager.page > pages THEN pages
                             ELSE pager.page

\* 12 records, page 99 asked for: 3 pages, page 3 shown
C15_Witness ==
  /\ pager.built
  /\ Len(pager.items) = 12
  /\ pager.page = 99
  /\ pager.shown.pages = 3
  /\ pager.shown.page = 3

\* the view action of the record at position i of the list
ViewOfPosition(i) ==
  IF i % 2 = 1 THEN [data |-> "view_app", id |-> (i + 1) \div 2]
  ELSE [data |-> "view_hotel", id |-> i \div 2]

\* C16: page p shows exactly the records at positions 5(p-1)+1 .. min(5p,
\* total) in list order, at most 5, each with one view action bound to its
\* own id; pages 1..pageCount together show every record exactly once.
C16_PageShowsItsSlice ==
  pager.built =>
    LET total == Len(pager.items)
        p == pager.shown.page
        first == ITEMS_PER_PAGE * (p - 1) + 1
        lastpos == Min(ITEMS_PER_PAGE * p, total)
        views == pager.shown.views
        Page(q) == BuildPage(pager.items, q, "application").views
    IN /\ Len(views) <= ITEMS_PER_PAGE
       /\ Len(views) = IF lastpos >= first THEN lastpos - first + 1 ELSE 0
       /\ \A j \in DOMAIN views : views[j] = ViewOfPosition(first + j - 1)
       /\ \A i \in 1..total :
            Cardinality({q \in 1..pager.shown.pages :
                           \E j \in DOMAIN Page(q) :
                             Page(q)[j] = ViewOfPosition(i)}) = 1

\* 12 records, page 3: the records at positions 11 and 12 only
C16_Witness ==
  /\ pager.built
  /\ Len(pager.items) = 12
  /\ pager.shown.page = 3
  /\ Len(pager.shown.views) = 2
  /\ pager.shown.views[1] = [data |-> "view_app", id |-> 6]

\* C17: the navigation has a previous action, bound to page - 1, exactly
\* when the page shown is above 1, a next action, bound to page + 1, exactly
\* when it is below the page count, and always a refresh action bound to
\* the page shown (the clamped number).
C17_Navigation ==
  pager.built =>
    LET p == pager.shown.page
        nav == pager.shown.nav
        Has(label, q) == \E b \in DOMAIN nav :
                           nav[b].label = label /\ nav[b].page = q
        Shows(label) == \E b \in DOMAIN nav : nav[b].label = label
    IN /\ Shows("prev") <=> p > 1
       /\ Shows("prev") => Has("prev", p - 1)
       /\ Shows("next") <=> p < pager.shown.pages
       /\ Shows("next") => Has("next", p + 1)
       /\ Len(nav) <= 2
       /\ pager.shown.refresh.page = p

\* page 99 of 12 records asked for: page 3 shown, with a previous action
\* bound to page 2, no next action, and the refresh action bound to page 3
C17_Witness ==
  /\ pager.built
  /\ pager.page = 99
  /\ pager.shown.page = 3
  /\ pager.shown.nav = <<[label |-> "prev", typ |-> "application", page |-> 2]>>
  /\ pager.shown.refresh.page = 3

(***************************************************************************)
(* Properties of the dialogues (under Dialogue).                           *)
(***************************************************************************)
\* C11: in the outbound-date step a text whose date is before today is
\* rejected, the dialogue stays in the outbound-date state and the draft is
\* unchanged; a text whose date is today is accepted, its date is put into
\* the draft and the dialogue goes to the return-date step when round trip
\* was chosen and to the reason step otherwise.
C11_OutboundDateStep ==
  [][\A t \in DateInputs :
       (FlowDate(t) /\ ~ParseSingleDate(t).raised) =>
         /\ ParseSingleDate(t).d < TODAY =>
              conv' = DATE_STR /\ user_data' = user_data
         /\ ParseSingleDate(t).d = TODAY =>
              /\ conv' = IF Get(user_data, "is_round_trip", FALSE)
                           THEN RETURN_DATE ELSE REASON
              /\ user_data'["date"] = Strftime(TODAY)]_vars

\* today's date was accepted for a round trip: the return date is asked for
C11_Witness ==
  /\ last.op = "flow_date"
  /\ last.result = "accepted"
  /\ conv = RETURN_DATE
  /\ user_data["date"] = Strftime(TODAY)

\* the saved ticket applications and hotel bookings
Applications == {file[APPLICATIONS_FILE][i] : i \in DOMAIN file[APPLICATIONS_FILE]}
Hotels == {file[HOTELS_FILE][i] : i \in DOMAIN file[HOTELS_FILE]}

\* the cell holds a date
IsDate(cell) == ~Strptime(cell).raised

\* C12: every saved ticket application with IsRoundTrip = true has a return
\* date after its outbound date, and a return route that is the reverse
\* "B - A" of its outbound route "A - B" when the outbound route has two
\* " - "-separated segments.
C12_RoundTripOrdered ==
  \A row \in Applications :
    row.IsRoundTrip =>
      /\ IsDate(row.Date)
      /\ IsDate(row.ReturnDate)
      /\ Strptime(row.ReturnDate).d > Strptime(row.Date).d
      /\ Len(SplitRoute(row.Route)) = 2
           => row.ReturnRoute = ReverseRoute(SplitRoute(row.Route))

\* C13: every saved ticket application with IsRoundTrip = true has a
\* non-empty return route and a non-empty return date, whichever route text
\* the route step took.
C13_RoundTripComplete ==
  \A row \in Applications :
    row.IsRoundTrip => row.ReturnRoute # "" /\ row.ReturnDate # ""

\* C14: every saved hotel booking has a check-out date after its check-in
\* date, both of them today or later when the booking was saved.
C14_HotelDatesValid ==
  \A row \in Hotels :
    /\ IsDate(row.CheckIn)
    /\ IsDate(row.CheckOut)
    /\ Strptime(row.CheckOut).d > Strptime(row.CheckIn).d
    /\ Strptime(row.CheckIn).d >= TODAY
    /\ Strptime(row.CheckOut).d >= TODAY

\* the keys of the draft other than the name and the passport reference
DraftFields ==
  {"route", "date", "date_raw", "time_of_day", "reason", "is_round_trip",
   "return_route", "return_date", "return_time_of_day"}

\* C18: a confirm at the confirmation step whose save succeeds adds one row
\* to the ticket applications, with the pending label as status and the
\* draft's values as fields (an empty cell for a value the draft lacks), and
\* leaves a draft that holds the name and the passport reference and
\* nothing else.
C18_ConfirmSavesAndResets ==
  [][(conv = CONFIRM /\ last'.op = "confirm_app" /\ last'.result = "saved") =>
       LET rows == file'[APPLICATIONS_FILE]
           row == rows[Len(rows)]
       IN /\ Len(rows) = Len(file[APPLICATIONS_FILE]) + 1
          /\ row.ID = last'.id
          /\ row.UserID = Customer
          /\ row.Status = STATUSES.pending
          /\ row.FIO = Get(user_data, "name", "")
          /\ row.PassportFileID = Get(user_data, "passport", "")
          /\ row.Route = Get(user_data, "route", "")
          /\ row.Date = Get(user_data, "date", "")
          /\ row.TimeOfDay = Get(user_data, "time_of_day", "")
          /\ row.Reason = Get(user_data, "reason", "")
          /\ row.IsRoundTrip = Get(user_data, "is_round_trip", FALSE)
          /\ row.ReturnRoute = Get(user_data, "return_route", "")
          /\ row.ReturnDate = Get(user_data, "return_date", "")
          /\ DOMAIN user_data' = {"name", "passport"}
          /\ user_data'["name"] = user_data["name"]
          /\ user_data'["passport"] = user_data["passport"]
          /\ conv' = END]_vars

\* a round trip was confirmed at the confirmation step and saved
C18_Witness ==
  /\ last.op = "confirm_app"
  /\ last.result = "saved"
  /\ conv = END
  /\ DOMAIN user_data = {"name", "passport"}
  /\ \E row \in Applications : row.ID = last.id /\ row.IsRoundTrip

\* the sends of kind k of the last handler
Sent(k) == {n \in DOMAIN last.notified : last.notified[n].kind = k}

C20_CancelDiscardsDraft ==
  [][(conv = CONFIRM /\ last'.op = "cancel_app") =>
       /\ file'[APPLICATIONS_FILE] = file[APPLICATIONS_FILE]
       /\ DOMAIN user_data' \cap DraftFields = {}]_vars

\* C21: when the table write fails while a ticket application is confirmed
\* at the confirmation step, no record is added, the draft is left exactly
\* as it was before the confirm, and nothing is sent to the administrator.
C21_FailedConfirmAborts ==
  [][(conv = CONFIRM /\ last'.op = "confirm_app" /\ last'.result = "failed") =>
       /\ file'[APPLICATIONS_FILE] = file[APPLICATIONS_FILE]
       /\ user_data' = user_data
       /\ last'.notified = <<>>]_vars

\* C23: in a hotel dialogue started by a user with no name on file (the
\* entry asked for the name), the name text moves the dialogue to the
\* city step, never to a step of the ticket dialogue.
C23_HotelNameGoesToCity ==
  [][(/\ last.op = "start_hotel"
      /\ last.result = "ask_name"
      /\ last'.op = "flow_name")
     => conv' = HOTEL_CITY]_vars

\* C30: a confirm tap adds a ticket application only when the dialogue is
\* at the confirmation step, and a room-type tap adds a hotel booking only
\* when the dialogue is at the room-type step; a tap in any other state,
\* or with no dialogue active, adds no record.
C30_SavedOnlyAtItsStep ==
  [][/\ (last'.op = "confirm_app" /\ conv # CONFIRM)
          => file'[APPLICATIONS_FILE] = file[APPLICATIONS_FILE]
     /\ (last'.op = "hotel_room_type" /\ conv # HOTEL_ROOM_TYPE)
          => file'[HOTELS_FILE] = file[HOTELS_FILE]]_vars

(***************************************************************************)
(* Comments: the comment dialogue of the administrator.  In this           *)
(* specification conv, user_data and buttons are those of the              *)
(* administrator's conversation.                                           *)
(***************************************************************************)
COMMENT == "COMMENT"

\* the tables after n ticket applications and n hotel bookings were saved,
\* by the two submitters in turn
SavedRows(n, item_type) ==
  [i \in 1..n |->
     LET user == IF i % 2 = 1 THEN "101" ELSE "102"
     IN IF item_type = "app"
          THEN [NewApplication(user, <<>>, STATUSES.pending) EXCEPT !.ID = i]
          ELSE [NewHotel(user, <<>>, STATUSES.pending) EXCEPT !.ID = i]]

CommentsInit ==
  /\ \E a, h \in 0..MaxSaved :
       /\ file = [p \in FILES |->
                    IF p = APPLICATIONS_FILE THEN SavedRows(a, "app")
                    ELSE IF p = HOTELS_FILE THEN SavedRows(h, "hotel")
                    ELSE <<>>]
       /\ assigned = [p \in IdFiles |->
                        IF p = APPLICATIONS_FILE THEN [i \in 1..a |-> i]
                        ELSE IF p = HOTELS_FILE THEN [i \in 1..h |-> i]
                        ELSE <<>>]
  /\ cache = [p \in FILES |-> NoEntry]
  /\ last = Did("init", "", "", 0, "", "", {}, <<>>)
  /\ steps = 0
  /\ conv = END
  /\ user_data = <<>>
  /\ buttons = {}
  /\ entered = 0
  /\ pager = NoPager
  /\ cards = <<>>
  /\ reminded = <<>>
  /\ job = Idle

\* what a tap or message of the comment dialogue leaves alone
CommentsStep == UNCHANGED <<steps, entered, pager, cards, reminded, job>>

\* cb_add_comment, data "comment:<typ>:<id>" of the comment button of the
\* administrator's card of a record; registered outside the conversation
\* handler.  The keyboard public / internal / cancel is sent.
CbAddComment(item_type, item_id) ==
  /\ CommentsStep
  /\ IndexOf(file[FileOf(item_type)], item_id) # {}
  /\ user_data' = Put(user_data, "comment_item", <<item_type, item_id>>)
  /\ buttons' = buttons \cup {"comment_type"}
  /\ last' = Did("add_comment_tap", ADMIN_ID, item_type, item_id, "", "asked",
                 {}, <<>>)
  /\ UNCHANGED <<file, cache, assigned, conv>>

\* cb_comment_type, data "comment_type:<typ>:<id>:<comment_type>" of the
\* keyboard sent last; registered outside the conversation handler only
\* (line 1854): the dispatcher drops the COMMENT it returns and the state
\* of the conversation stays what it was.
CbCommentType(comment_type) ==
  LET item == user_data["comment_item"]
      d == Put(user_data, "comment_type", comment_type)
  IN /\ CommentsStep
     /\ "comment_type" \in buttons
     /\ user_data' = Put(d, "comment_item", item)
     /\ conv' = conv
     /\ last' = Did("comment_type", ADMIN_ID, item[1], item[2], comment_type,
                    "asked", {}, <<>>)
     /\ UNCHANGED <<file, cache, assigned, buttons>>

\* handle_comment: state COMMENT, a text
HandleComment(text) ==
  LET item == Get(user_data, "comment_item", <<None, None>>)
      item_type == item[1]
      item_id == item[2]
      is_internal == Get(user_data, "comment_type", "public") = "internal"
      given == item_type # None /\ item_id # None /\ item_id # 0
      w == InsertInto(Store, COMMENTS_FILE,
                      [ID |-> 0, ItemType |-> item_type, ItemID |-> item_id,
                       UserID |-> ADMIN_ID, Comment |-> text,
                       IsInternal |-> is_internal], "none")
      r == SafeRead(w.S, FileOf(item_type), TRUE)
      row == IndexOf(r.df, item_id)
      S2 == IF given /\ ~is_internal THEN r.S ELSE IF given THEN w.S ELSE Store
  IN /\ conv = COMMENT
     /\ file' = S2.file
     /\ cache' = S2.cache
     /\ assigned' = IF given THEN [assigned EXCEPT ![COMMENTS_FILE] = Append(@, w.nid)]
                    ELSE assigned
     /\ conv' = END
     /\ last' = IF ~given
                  THEN Did("handle_comment", ADMIN_ID, "", 0, "", "ignored", {}, <<>>)
                  ELSE Did("handle_comment", ADMIN_ID, item_type, item_id, "",
                           "saved", {COMMENTS_FILE},
                           IF ~is_internal /\ row # {}
                             THEN NotifyUserStatusChange(r.df[MinOf(row)].UserID, TRUE)
                             ELSE <<>>)

\* handler_forward_any: a message no handler before it took.  target is
\* admin_forwarding.get(admin_id): None outside the forwarding mode.
HandlerForwardAny(text, target) ==
  /\ last' = IF target = None
               THEN Did("forward_any", ADMIN_ID, "", 0, "", "ignored", {}, <<>>)
               ELSE Did("forward_any", ADMIN_ID, "", 0, "", "forwarded", {},
                        Attempt(target, TRUE))
  /\ UNCHANGED <<file, cache, assigned, conv>>

\* a text message of the administrator that is no command and no menu
\* label: the conversation handler takes it in state COMMENT; with no
\* conversation active it declines and the dispatcher goes on to
\* handler_forward_any
TextMessage(text, target) ==
  /\ CommentsStep
  /\ conv \in {COMMENT, END}
  /\ UNCHANGED <<user_data, buttons>>
  /\ IF conv = COMMENT THEN HandleComment(text)
     ELSE HandlerForwardAny(text, target)

CommentTexts == {"pozvonite v kassu"}
CommentTypes == {"public", "internal"}
ForwardTargets == {None, "101"}

CommentsNext ==
  \/ \E t \in ItemTypes, i \in Ids : CbAddComment(t, i)
  \/ \E c \in CommentTypes : CbCommentType(c)
  \/ \E t \in CommentTexts, g \in ForwardTargets : TextMessage(t, g)

Comments == CommentsInit /\ [][CommentsNext]_vars

\* the Comment rows with this target, text and flag
CommentRows(rows, item_type, item_id, text, is_internal) ==
  {i \in DOMAIN rows :
     /\ rows[i].ItemType = item_type
     /\ rows[i].ItemID = item_id
     /\ rows[i].Comment = text
     /\ rows[i].IsInternal = is_internal}

\* C22: after the administrator has tapped a card's comment action and
\* chosen public or internal, the free-text message sent next finds the
\* dialogue in the comment-capture state and adds a Comment row with the
\* card's type and id, the text, and the flag chosen.
C22_CommentCaptured ==
  [][\A t \in CommentTexts, g \in ForwardTargets :
       (last.op = "comment_type" /\ TextMessage(t, g)) =>
         /\ conv = COMMENT
         /\ Len(file'[COMMENTS_FILE]) = Len(file[COMMENTS_FILE]) + 1
         /\ CommentRows(file'[COMMENTS_FILE], last.typ, last.id, t,
                        last.status = "internal") # {}]_vars

(***************************************************************************)
(* Cards: the cards and list lines of stored records.                      *)
(***************************************************************************)
MaxComments == 2     \* rows of the comments table

Reverse(s) == [i \in 1..Len(s) |-> s[Len(s) + 1 - i]]

\* df[df["UserID"] == user_id].sort_values("Timestamp", ascending=False):
\* the rows of the user, the newest first (rows are appended in the order
\* of their timestamps)
UserRows(df, user_id) ==
  LET Mine(row) == row.UserID = user_id
  IN Reverse(SelectSeq(df, Mine))

\* cmd_admin_all: /admin_all, a card with the administrator's buttons for
\* every ticket application, then for every hotel booking
CmdAdminAll(caller, fault) ==
  LET ra == SafeRead(Store, APPLICATIONS_FILE, fault # "read")
      app_cards == [i \in DOMAIN ra.df |->
                      FormatApplicationCard(ra.S, ra.df[i], TRUE)]
      Sa == IF ra.df # <<>> THEN AfterCard(ra.S) ELSE ra.S
      rh == SafeRead(Sa, HOTELS_FILE, fault # "read")
      hotel_cards == [i \in DOMAIN rh.df |->
                        FormatHotelCard(rh.S, rh.df[i], TRUE)]
      Sh == IF rh.df # <<>> THEN AfterCard(rh.S) ELSE rh.S
  IN /\ CardStep
     /\ UNCHANGED assigned
     /\ IF caller # ADMIN_ID
          THEN /\ UNCHANGED <<file, cache>>
               /\ cards' = <<>>
               /\ last' = Did("admin_all", caller, "", 0, "", "denied", {}, <<>>)
          ELSE /\ file' = Sh.file
               /\ cache' = Sh.cache
               /\ cards' = app_cards \o hotel_cards
               /\ last' = Did("admin_all", caller, "", 0, "", "done", {}, <<>>)

\* cb_my_requests: the user's applications and bookings as a list, page 1
\* (my_list and my_page of the draft are pager.items and pager.page; the two
\* kinds are not ordered against each other, the rows carry no timestamp)
CbMyRequests(user_id) ==
  LET ra == SafeRead(Store, APPLICATIONS_FILE, TRUE)
      apps == UserRows(ra.df, user_id)
      rh == SafeRead(ra.S, HOTELS_FILE, TRUE)
      hotels == UserRows(rh.df, user_id)
      records == apps \o hotels
      item_type == IF apps # <<>> /\ hotels # <<>> THEN "application"
                   ELSE IF hotels # <<>> THEN "hotel" ELSE "application"
      page == BuildPage(records, 1, item_type)
  IN /\ CountStep
     /\ file' = rh.S.file
     /\ cache' = rh.S.cache
     /\ pager' = [items |-> records, page |-> 1, built |-> TRUE, shown |-> page]
     /\ cards' = page.lines
     /\ last' = Did("my_requests", user_id, "", 0, "", "done", {}, <<>>)
     /\ UNCHANGED <<assigned, conv, user_data, buttons, entered, reminded, job>>

\* the statuses a record can hold: the eight labels, the text of an owner
\* cancel, the texts of /set_status
StoredStatuses ==
  {STATUSES[k] : k \in DOMAIN STATUSES} \cup {CANCEL_APP_STATUS} \cup StatusTexts

\* the comments a table can hold: target and internal flag
CommentKinds ==
  {<<"app", 1, FALSE>>, <<"app", 1, TRUE>>, <<"hotel", 1, FALSE>>,
   <<"hotel", 1, TRUE>>, <<"app", 2, TRUE>>}

CommentTables ==
  UNION {[1..m -> CommentKinds] : m \in 0..MaxComments}

\* the comments table written by add_comment for the comments q
CommentsOf(q) ==
  [i \in DOMAIN q |->
     [ID |-> i, ItemType |-> q[i][1], ItemID |-> q[i][2], UserID |-> ADMIN_ID,
      Comment |-> "pozvonite v kassu", IsInternal |-> q[i][3]]]

\* one ticket application and one hotel booking of user 101 with statuses
\* set by the status handlers, and a comments table
CardsInit ==
  /\ \E s \in StoredStatuses, h \in {STATUSES.pending, CANCEL_HOTEL_STATUS},
        q \in CommentTables :
       file = [p \in FILES |->
                 IF p = APPLICATIONS_FILE
                   THEN <<[SavedRows(1, "app")[1] EXCEPT !.Status = s]>>
                 ELSE IF p = HOTELS_FILE
                   THEN <<[SavedRows(1, "hotel")[1] EXCEPT !.Status = h]>>
                 ELSE IF p = COMMENTS_FILE THEN CommentsOf(q)
                 ELSE <<>>]
  /\ assigned = [p \in IdFiles |->
                   IF p = COMMENTS_FILE
                     THEN [i \in DOMAIN file[COMMENTS_FILE] |-> i]
                     ELSE <<1>>]
  /\ cache = [p \in FILES |-> NoEntry]
  /\ last = Did("init", "", "", 0, "", "", {}, <<>>)
  /\ steps = 0
  /\ conv = END
  /\ user_data = <<>>
  /\ buttons = {}
  /\ entered = 0
  /\ pager = NoPager
  /\ cards = <<>>
  /\ reminded = <<>>
  /\ job = Idle

CardsNext ==
  \/ \E t \in ItemTypes : CbPageView("101", t, 1, "none")
  \/ \E u \in {ADMIN_ID, "101"} : CmdAdminAll(u, "none")
  \/ CbMyRequests("101")

Cards == CardsInit /\ [][CardsNext]_vars

\* the eight canonical labels
Canonical == {STATUSES[k] : k \in DOMAIN STATUSES}

\* C24: on every card and list line a stored status that is one of the
\* eight canonical labels is rendered with the color marker of that label,
\* and every other stored status (the owner-cancel texts, free text) with
\* the neutral marker, never with the marker of a canonical status.
C24_StatusMarkers ==
  \A n \in DOMAIN cards :
    /\ cards[n].status \in Canonical =>
         \E k \in DOMAIN STATUSES :
           STATUSES[k] = cards[n].status /\ cards[n].marker = STATUS_COLORS[k]
    /\ cards[n].status \notin Canonical => cards[n].marker = NEUTRAL

\* the Comment rows with the card's type and id that a view counts: all of
\* them for the administrator, the public ones for everybody else
Counted(typ, id, for_admin) ==
  {i \in DOMAIN file[COMMENTS_FILE] :
     /\ file[COMMENTS_FILE][i].ItemType = typ
     /\ file[COMMENTS_FILE][i].ItemID = id
     /\ for_admin \/ ~file[COMMENTS_FILE][i].IsInternal}

MaxRuns == 2         \* invocations of check_reminders in a run

TicksPerDay == 2     \* resolution of the clock

\* datetime.strptime(text, "%d.%m.%Y"): midnight of the day
Midnight(d) == TicksPerDay * d

\* timedelta(days=n)
TimedeltaDays(n) == TicksPerDay * n

\* a window without its two bounds
InWindow_open(date, now) ==
  TimedeltaDays(3) < date - now /\ date - now < TimedeltaDays(4)

\* timedelta(days=3) <= (date - datetime.now()) <= timedelta(days=4)
InWindow(date, now) ==
  TimedeltaDays(3) <= date - now /\ date - now <= TimedeltaDays(4)

\* send_reminder(context, user_id, item_type, item_id, trip_date): one
\* send, its failure logged and swallowed
SendReminder(user_id, item_type, item_id, ok) ==
  [to |-> user_id, typ |-> item_type, id |-> item_id, ok |-> ok]

RECURSIVE ScanRows(_, _, _, _, _)
\* the loop of check_reminders over the rows of a table: a row whose date
\* cell is no date (strptime raises) is skipped
ScanRows(df, item_type, column, now, ok) ==
  IF df = <<>> THEN <<>>
  ELSE LET row == Head(df)
           p == Strptime(row[column])
       IN (IF ~p.raised /\ InWindow(Midnight(p.d), now)
             THEN <<SendReminder(row.UserID, item_type, row.ID, ok)>>
             ELSE <<>>)
          \o ScanRows(Tail(df), item_type, column, now, ok)

DateColumn(path) == IF path = APPLICATIONS_FILE THEN "Date" ELSE "CheckIn"
TypeOf(path) == IF path = APPLICATIONS_FILE THEN "app" ELSE "hotel"

\* check_reminders(context) on store S at time `at`, run in one piece
CheckReminders(S, at, fault) ==
  LET ra == SafeRead(S, APPLICATIONS_FILE, fault # "read")
      rh == SafeRead(ra.S, HOTELS_FILE, fault # "read")
  IN [S |-> rh.S,
      read |-> ra.cols /\ rh.cols,
      sends |-> ScanRows(ra.df, "app", "Date", at, fault # "send")
                \o ScanRows(rh.df, "hotel", "CheckIn", at, fault # "send")]

\* an invocation at time `at`: the clock does not go back
CanRun(at) ==
  /\ Len(reminded) < MaxRuns
  /\ IF reminded = <<>> THEN TRUE ELSE reminded[Len(reminded)].at <= at

\* the /reminders command (line 1857): check_reminders, then a message to
\* the caller
CmdReminders(caller, at, fault) ==
  LET c == CheckReminders(Store, at, fault)
  IN /\ CanRun(at)
     /\ file' = c.S.file
     /\ cache' = c.S.cache
     /\ reminded' = Append(reminded, [at |-> at, read |-> c.read, sends |-> c.sends])
     /\ last' = Did("reminders", caller, "", 0, "", "done", {}, Attempt(caller, TRUE))
     /\ cards' = <<>>
     /\ UNCHANGED <<assigned, steps, conv, user_data, buttons, entered, pager, job>>

(***************************************************************************)
(* The job queue's thread: job_check_reminders.  The thread runs next to   *)
(* the dispatcher's thread, neither safe_read nor safe_write takes a lock: *)
(* the steps of the job's safe_read are interleaved with the handlers (a   *)
(* handler is taken as one step).                                          *)
(***************************************************************************)
JobStep ==
  UNCHANGED <<file, assigned, last, steps, conv, user_data, buttons, entered,
              pager, cards>>

\* the job's safe_read of job.path has returned df: the rows are scanned;
\* after the applications the hotel bookings are read, after the hotel
\* bookings check_reminders returns
JobReturned(df, cols) ==
  LET sends == job.sends \o ScanRows(df, TypeOf(job.path), DateColumn(job.path),
                                     job.at, TRUE)
  IN IF job.path = APPLICATIONS_FILE
       THEN /\ job' = [pc |-> "check", path |-> HOTELS_FILE, df |-> <<>>,
                       at |-> job.at, read |-> job.read /\ cols,
                       sends |-> sends]
            /\ UNCHANGED reminded
       ELSE /\ job' = Idle
            /\ reminded' = Append(reminded, [at |-> job.at,
                                             read |-> job.read /\ cols,
                                             sends |-> sends])

\* the scheduler starts job_check_reminders at time `at`
JobStart(at) ==
  /\ JobStep
  /\ job.pc = "idle"
  /\ CanRun(at)
  /\ job' = [pc |-> "check", path |-> APPLICATIONS_FILE, df |-> <<>>,
             at |-> at, read |-> TRUE, sends |-> <<>>]
  /\ UNCHANGED <<cache, reminded>>

\* safe_read lines 164-167: the entry of the cache is returned when it is
\* less than 5 minutes old
JobCheck ==
  /\ JobStep
  /\ job.pc = "check"
  /\ UNCHANGED cache
  /\ IF Fresh(cache[job.path])
       THEN JobReturned(cache[job.path].data, TRUE)
       ELSE job' = [job EXCEPT !.pc = "read"] /\ UNCHANGED reminded

\* safe_read lines 169-170: df = pd.read_excel(path); when it raises, an
\* empty DataFrame is returned
JobReadExcel(rd_ok) ==
  /\ JobStep
  /\ job.pc = "read"
  /\ UNCHANGED cache
  /\ IF rd_ok
       THEN /\ job' = [job EXCEPT !.pc = "store",
                                  !.df = ReadExcel(file[job.path])]
            /\ UNCHANGED reminded
       ELSE JobReturned(<<>>, FALSE)

\* safe_read lines 172-173: cache[path] = {data: df, timestamp: now}
JobStore ==
  /\ JobStep
  /\ job.pc = "store"
  /\ cache' = [cache EXCEPT ![job.path] = Entry(job.df)]
  /\ JobReturned(job.df, TRUE)

(***************************************************************************)
(* Reminders: tables of records with travel and check-in dates.            *)
(***************************************************************************)
\* the Date cells of the stored ticket applications, in order of their ids:
\* no date, and dates 3, 4 and 5 days after TODAY
TravelDates ==
  {<<>>, <<"05.12.2025">>, <<"06.12.2025">>, <<"05.12.2025", "04.12.2025">>,
   <<"04.12.2025", "">>, <<"06.12.2025", "05.12.2025">>}

\* the CheckIn cells of the stored hotel bookings
CheckInDates == {<<>>, <<"">>, <<"05.12.2025">>}

\* datetime.now(): midnight of TODAY and one tick later (noon)
Times == {Midnight(TODAY), Midnight(TODAY) + 1}

RemindersInit ==
  /\ \E a \in TravelDates, h \in CheckInDates :
       /\ file = [p \in FILES |->
                    IF p = APPLICATIONS_FILE
                      THEN [i \in DOMAIN a |->
                              [SavedRows(Len(a), "app")[i] EXCEPT !.Date = a[i]]]
                    ELSE IF p = HOTELS_FILE
                      THEN [i \in DOMAIN h |->
                              [SavedRows(Len(h), "hotel")[i] EXCEPT !.CheckIn = h[i]]]
                    ELSE <<>>]
       /\ assigned = [p \in IdFiles |->
                        IF p = APPLICATIONS_FILE THEN [i \in DOMAIN a |-> i]
                        ELSE IF p = HOTELS_FILE THEN [i \in DOMAIN h |-> i]
                        ELSE <<>>]
  /\ cache = [p \in FILES |-> NoEntry]
  /\ last = Did("init", "", "", 0, "", "", {}, <<>>)
  /\ steps = 0
  /\ conv = END
  /\ user_data = <<>>
  /\ buttons = {}
  /\ entered = 0
  /\ pager = NoPager
  /\ cards = <<>>
  /\ reminded = <<>>
  /\ job = Idle

ReminderFaults == {"none", "read", "send"}

RemindersNext ==
  \/ \E t \in Times, f \in ReminderFaults : CmdReminders(ADMIN_ID, t, f)
  \/ \E t \in Times : JobStart(t)
  \/ JobCheck
  \/ \E ok \in BOOLEAN : JobReadExcel(ok)
  \/ JobStore

Reminders == RemindersInit /\ [][RemindersNext]_vars

\* the rows of a table whose date lies between 3 and 4 days after `at`,
\* bounds included
Due(path, at) ==
  {i \in DOMAIN file[path] :
     LET p == Strptime(file[path][i][DateColumn(path)])
     IN /\ ~p.raised
        /\ 3 * TicksPerDay <= TicksPerDay * p.d - at
        /\ TicksPerDay * p.d - at <= 4 * TicksPerDay}

\* the reminders of an invocation for one record
SendsFor(run, typ, id) ==
  {n \in DOMAIN run.sends : run.sends[n].typ = typ /\ run.sends[n].id = id}

\* C26: in every invocation of check_reminders whose tables could be read,
\* each stored ticket application or hotel booking whose travel / check-in
\* date lies between 3 and 4 days after the time of the invocation (bounds
\* included) gets exactly one reminder, sent to its owner, and every other
\* record gets none; this holds for each invocation by itself, so a record
\* still in the window at a later invocation is reminded again.
C26_RemindersInWindow ==
  \A k \in DOMAIN reminded :
    reminded[k].read =>
      /\ \A path \in {APPLICATIONS_FILE, HOTELS_FILE} :
           \A i \in DOMAIN file[path] :
             LET row == file[path][i]
                 sends == SendsFor(reminded[k], TypeOf(path), row.ID)
             IN /\ Cardinality(sends) = IF i \in Due(path, reminded[k].at)
                                          THEN 1 ELSE 0
                /\ \A n \in sends : reminded[k].sends[n].to = row.UserID
      /\ Len(reminded[k].sends) =
           Cardinality(Due(APPLICATIONS_FILE, reminded[k].at))
           + Cardinality(Due(HOTELS_FILE, reminded[k].at))

\* application 1 travels on 05.12.2025 and application 2 on 04.12.2025: at
\* midnight of 01.12.2025 both are reminded (4 days and exactly 3 days
\* ahead), one tick later application 1 is reminded again and application
\* 2 is not
C26_Witness ==
  /\ Len(reminded) = 2
  /\ reminded[1].at = Midnight(TODAY)
  /\ reminded[2].at = Midnight(TODAY) + 1
  /\ SendsFor(reminded[1], "app", 1) # {}
  /\ SendsFor(reminded[1], "app", 2) # {}
  /\ SendsFor(reminded[2], "app", 1) # {}
  /\ SendsFor(reminded[2], "app", 2) = {}


(***************************************************************************)
(* Race: mutations of the applications table by the handlers while the     *)
(* job queue's thread reads it.  Nothing is locked and no version of the   *)
(* table is compared before a write.                                       *)
(***************************************************************************)
\* the draft of a submitted application: the travel date is the one key the
\* job's scan reads
RaceDraft == [date |-> "05.12.2025"]

\* save_application(user, user_data) with the whole new_app row
SaveApplicationOf(user, d, fault) ==
  Insert("save_application", APPLICATIONS_FILE, user,
         NewApplication(user, d, STATUSES.pending), fault)

RaceNext ==
  \/ SaveApplicationOf("101", RaceDraft, "none")
  \/ \E i \in Ids, s \in StatusTexts : CmdSetStatus(ADMIN_ID, "app", i, s, "none")
  \/ \E t \in Times : JobStart(t)
  \/ JobCheck
  \/ \E ok \in BOOLEAN : JobReadExcel(ok)
  \/ JobStore

Race == Init /\ [][RaceNext]_vars

\* the ids of the submissions that reported success and are not in the table
LostIds(df) == {assigned[APPLICATIONS_FILE][k] : k \in DOMAIN assigned[APPLICATIONS_FILE]}
               \ ColumnID(df)

\* C27: nothing locks the table or compares its version: a status change
\* that reports success while the cache holds, less than 5 minutes old,
\* fewer rows than the table, writes the cached rows with its own change
\* over the table, so that the table keeps the later writer's change only
\* and a submission that reported success is gone.
C27_LostUpdate ==
  [][(/\ last'.op = "set_status"
      /\ last'.result = "done"
      /\ steps' = steps + 1
      /\ cache[APPLICATIONS_FILE].present
      /\ cache[APPLICATIONS_FILE].age < CACHE_TTL
      /\ Len(cache[APPLICATIONS_FILE].data) < Len(file[APPLICATIONS_FILE]))
     => (/\ Len(file'[APPLICATIONS_FILE]) = Len(cache[APPLICATIONS_FILE].data)
         /\ \E i \in DOMAIN file'[APPLICATIONS_FILE] :
              /\ file'[APPLICATIONS_FILE][i].ID = last'.id
              /\ file'[APPLICATIONS_FILE][i].Status = last'.status
         /\ LostIds(file'[APPLICATIONS_FILE]) # {})]_vars

\* the submission of application 2 and the status change of application 1
\* have both reported success, and the table holds application 1 only
C27_Witness ==
  /\ last.op = "set_status"
  /\ last.result = "done"
  /\ last.id = 1
  /\ assigned[APPLICATIONS_FILE] = <<1, 2>>
  /\ ColumnID(file[APPLICATIONS_FILE]) = {1}
  /\ file[APPLICATIONS_FILE][1].Status = last.status

\* C28: once a safe_read of the applications table that overlapped a
\* safe_write of it has finished as well, the next safe_read returns the
\* rows of the table as written.
C28_WriteInvalidatesOverlappingRead ==
  job.path # APPLICATIONS_FILE =>
    ReadRows(APPLICATIONS_FILE) = ReadExcel(file[APPLICATIONS_FILE])


(***************************************************************************)
(* Cache: the tables are files next to the program; a file can be changed  *)
(* by something other than safe_write (the workbook edited by hand), which *)
(* the cache does not see.  /admin_all shows what safe_read returned.      *)
(***************************************************************************)
\* the statuses typed into the workbook
EditedStatuses == {STATUSES.approved, STATUSES.rejected}

\* the minutes that pass between two handlers
CacheElapsed == {CACHE_TTL - 1, CACHE_TTL}

\* the Status cell of the first row of a table is changed in the file, not
\* through safe_write: the cache keeps its entry
ExternalEdit(typ, status) ==
  LET path == FileOf(typ)
  IN /\ file[path] # <<>>
     /\ file[path][1].Status # status
     /\ file' = [file EXCEPT ![path] = SetAt(@, 1, status)]
     /\ cards' = <<>>
     /\ UNCHANGED <<cache, assigned, last, steps, conv, user_data, buttons,
                    entered, pager, reminded, job>>

CacheNext ==
  \/ CmdAdminAll(ADMIN_ID, "none")
  \/ \E t \in ItemTypes, s \in EditedStatuses : ExternalEdit(t, s)
  \/ \E d \in CacheElapsed : TimePasses(d)

Cache == CommentsInit /\ [][CacheNext]_vars

\* the cards of one kind among the cards sent, in order
CardsOf(cs, typ) ==
  LET Kind(c) == c.typ = typ
  IN SelectSeq(cs, Kind)

\* the cards show the ids and statuses of the rows, row by row
Shows(cs, rows) ==
  /\ Len(cs) = Len(rows)
  /\ \A i \in DOMAIN rows :
       cs[i].id = rows[i].ID /\ cs[i].status = rows[i].Status

\* C29: a safe_read of a table whose cache entry is less than 5 minutes old
\* returns the rows of the entry, whatever the file holds, and leaves the
\* entry as it is; a safe_read of a table whose entry is 5 minutes old or
\* older (or missing) returns the rows of the file and makes them the
\* entry, of age 0 (observed through the cards of /admin_all, which reads
\* both tables).
C29_CacheTtl ==
  [][CmdAdminAll(ADMIN_ID, "none") =>
       \A typ \in ItemTypes :
         LET path == FileOf(typ)
             e == cache[path]
         IN IF e.present /\ e.age < CACHE_TTL
              THEN /\ Shows(CardsOf(cards', typ), e.data)
                   /\ cache'[path] = e
              ELSE /\ Shows(CardsOf(cards', typ), ReadExcel(file[path]))
                   /\ cache'[path] = [present |-> TRUE,
                                      data |-> ReadExcel(file[path]),
                                      age |-> 0]]_vars

\* /admin_all has shown application 1 with the status its cache entry holds,
\* 4 minutes old, while the file holds another status
C29_Witness ==
  /\ last.op = "admin_all"
  /\ cards # <<>>
  /\ cards[1].typ = "app"
  /\ cache[APPLICATIONS_FILE].present
  /\ cache[APPLICATIONS_FILE].age = CACHE_TTL - 1
  /\ cards[1].status = cache[APPLICATIONS_FILE].data[1].Status
  /\ cards[1].status # ReadExcel(file[APPLICATIONS_FILE])[1].Status


(***************************************************************************)
(* The outbound date of the ticket dialogue.                               *)
(***************************************************************************)
\* a text is a date the outbound-date step accepts: it is one of the dates
\* flow_date writes, today or later
AcceptedDate(text) ==
  \E d \in Days : DateTexts[d] = text /\ IsFutureOrToday(d)

\* C31: the ticket dialogue is at the reason or the confirmation step only
\* with an outbound date in the draft that the outbound-date step accepted,
\* and every ticket application in the table has such a date.
C31_OutboundDateValidated ==
  /\ conv \in {REASON, CONFIRM} => AcceptedDate(Get(user_data, "date", ""))
  /\ \A i \in DOMAIN file[APPLICATIONS_FILE] :
       AcceptedDate(file[APPLICATIONS_FILE][i].Date)


(***************************************************************************)
(* Names: the dialogues of a user whose name may be a text that            *)
(* pd.read_excel reads as a missing cell.                                  *)
(***************************************************************************)
EntryNames == {"NA"}

NamesNext ==
  \/ DialogueNext
  \/ \E t \in EntryNames : FlowName(t)

Names == Init /\ [][NamesNext]_vars

\* the FIO cells of the user's rows in users.xlsx
NamesOnFile ==
  {file[USERS_FILE][i].FIO :
     i \in {k \in DOMAIN file[USERS_FILE] :
              file[USERS_FILE][k].UserID = Customer}} \ {""}

\* the entry has set the draft name to the name on file and skipped to state
\* `skip_to`, or has asked for the name and left the draft alone
EntryDone(skip_to) ==
  IF NamesOnFile # {}
    THEN /\ "name" \in DOMAIN user_data'
         /\ user_data'["name"] \in NamesOnFile
         /\ conv' = skip_to
    ELSE /\ conv' = NAME
         /\ user_data' = user_data

\* C32: entering the ticket dialogue with a name on file sets the draft name
\* to it and starts at the passport step, entering the hotel dialogue at the
\* city step; with no name on file either dialogue starts at the name step
\* and the draft is left alone.
C32_EntryPrefillsName ==
  [][/\ CbStartApp => EntryDone(PASSPORT)
     /\ CbStartHotel => EntryDone(HOTEL_CITY)]_vars


(***************************************************************************)
(* Invalid inputs of the return-date step and of the hotel date-range step. *)
(***************************************************************************)
\* a text of the return-date step is invalid: it holds no date, or a date
\* that is not after the outbound date of the draft
InvalidReturnDate(text) ==
  LET p == ParseSingleDate(text)
      outbound == Get(user_data, "date", "")
  IN \/ p.raised
     \/ /\ outbound # ""
        /\ \E d \in Days : DateTexts[d] = outbound /\ p.d <= d

\* a text of the hotel date-range step is invalid: it holds no two dates, a
\* date before today, or a check-out that is not after the check-in
InvalidDateRange(text) ==
  LET p == ParseDateRange(text)
  IN \/ p.raised
     \/ p.checkin < TODAY
     \/ p.checkout < TODAY
     \/ p.checkout <= p.checkin

\* the step has changed neither the state of the dialogue, nor the draft,
\* nor a table
Reprompted ==
  /\ conv' = conv
  /\ user_data' = user_data
  /\ file' = file

\* C33: an invalid text at the return-date step (no date, or a date not
\* after the outbound date) and an invalid text at the hotel date-range step
\* (no two dates, a date before today, a check-out not after the check-in)
\* leave the state of the dialogue, the draft and every table as they were.
C33_InvalidInputReprompts ==
  [][/\ \A t \in DateInputs :
          FlowReturnDate(t) /\ InvalidReturnDate(t) => Reprompted
     /\ \A t \in RangeInputs :
          FlowHotelDaterange(t) /\ InvalidDateRange(t) => Reprompted]_vars

\* a return date that is the outbound date of the draft has been refused:
\* the dialogue is still at the return-date step, the draft holds no return
\* date
C33_Witness ==
  /\ last.op = "flow_return_date"
  /\ last.result = "rejected_order"
  /\ conv = RETURN_DATE
  /\ Get(user_data, "date", "") = "02.12.2025"
  /\ "return_date" \notin DOMAIN user_data


(***************************************************************************)
(* Operations on an id that is not in the table.                           *)
(***************************************************************************)
\* no row of the table of the kind has the id
Absent(typ, sid) == IndexOf(ReadExcel(file[FileOf(typ)]), sid) = {}

\* the step has left every table alone, has notified nobody and has told the
\* caller that the record was not found (cb_archive_item's answer to a
\* failed archive_item says so)
NotFoundAnswered(results) ==
  /\ file' = file
  /\ last'.notified = <<>>
  /\ last'.result \in results

\* the three operations that answer an absent id
AbsentIdAnswered ==
  /\ \A t \in ItemTypes, i \in Ids, s \in StatusTexts :
       CmdSetStatus(ADMIN_ID, t, i, s, "none") /\ Absent(t, i)
         => NotFoundAnswered({"not_found"})
  /\ \A u \in Users, t \in ItemTypes, i \in Ids :
       CbCancelById(u, t, i, "none") /\ Absent(t, i)
         => NotFoundAnswered({"not_found"})
  /\ \A t \in ItemTypes, i \in Ids :
       CbArchiveItem(ADMIN_ID, t, i, "none") /\ Absent(t, i)
         => NotFoundAnswered({"failed"})

\* the set-status command, the owner's cancel and the archive action on an
\* absent id leave the tables alone, notify nobody and answer "not found"
AbsentIdAlwaysAnswered == [][AbsentIdAnswered]_vars

\* C34: a set-status command, a status shortcut, an owner's cancel or an
\* archive action on an id that is not in the table of its kind leaves
\* every table as it was, notifies no owner and answers the caller that the
\* record was not found.
C34_AbsentIdNotFound ==
  [][/\ AbsentIdAnswered
     /\ \A u \in Users, t \in ItemTypes, i \in Ids :
          CbChangeStatus(u, t, i, "rejected", "none") /\ Absent(t, i)
            => NotFoundAnswered({"not_found"})]_vars


(***************************************************************************)
(* The dormant conversation states.                                        *)
(***************************************************************************)
DormantStates ==
  {BROADCAST, TEMPLATE_NAME, TEMPLATE_DATA, GROUP_MEMBERS, GROUP_CONFIRM}

\* C35: whatever the user and the administrator send, the conversation is
\* never in one of the states BROADCAST, TEMPLATE_NAME, TEMPLATE_DATA,
\* GROUP_MEMBERS and GROUP_CONFIRM.
C35_DormantStatesUnreachable == conv \notin DormantStates

\* a ticket dialogue has run through its steps to the confirmation, which
\* has saved the application and ended the conversation
C35_Witness ==
  /\ last.op = "confirm_app"
  /\ last.result = "saved"
  /\ conv = END
  /\ "reason" \notin DOMAIN user_data


(***************************************************************************)
(* Report: the period report next to the operations of the store.          *)
(***************************************************************************)
\* the month of the Timestamp of every record of a run, "%Y-%m"
THIS_MONTH == "2025-12"

\* datetime.strptime(period, "%Y-%m")
StrptimeMonth(period) ==
  CASE period \in {"2025-12", "2025-11"} -> [raised |-> FALSE, month |-> period]
    [] OTHER -> [raised |-> TRUE, month |-> ""]

\* apps["TS"] = pd.to_datetime(apps["Timestamp"], errors="coerce"): every
\* row gets the column TS
WithTS(df) ==
  [i \in DOMAIN df |->
     [c \in DOMAIN df[i] \cup {"TS"} |->
        IF c = "TS" THEN THIS_MONTH ELSE df[i][c]]]

\* cmd_report_period: /report_period <period>
CmdReportPeriod(caller, period, fault) ==
  LET dt == StrptimeMonth(period)
      r == SafeRead(Store, APPLICATIONS_FILE, fault # "read")
      apps == WithTS(r.df)
      S == MutateCached(r.S, APPLICATIONS_FILE, apps)
      InPeriod(row) == row.TS = dt.month
      recs == SelectSeq(apps, InPeriod)
      answer(result, T) ==
        /\ file' = T.file
        /\ cache' = T.cache
        /\ last' = Did("report_period", caller, "", 0, "", result, {}, <<>>)
  IN /\ StoreStep
     /\ UNCHANGED assigned
     /\ IF caller # ADMIN_ID THEN answer("denied", Store)
        ELSE IF dt.raised THEN answer("bad_format", Store)
        ELSE IF r.df = <<>> THEN answer("empty", r.S)
        ELSE IF recs = <<>> THEN answer("none_in_period", S)
        ELSE answer("sent", S)

Periods == {"2025-12", "2025-11", "dekabr"}

ReportNext ==
  \/ Next
  \/ \E u \in {ADMIN_ID, "101"}, p \in Periods, f \in {"none", "read"} :
       CmdReportPeriod(u, p, f)

Report == Init /\ [][ReportNext]_vars

\* the columns of a ticket application of the store
ApplicationColumns == {"ID", "UserID", "Status"}

\* C36: whatever reports have been generated, a read of the ticket
\* applications returns rows with the columns of the table, and every
\* ticket application in the table has exactly these columns.
C36_ReportReadOnly ==
  /\ \A i \in DOMAIN ReadRows(APPLICATIONS_FILE) :
       DOMAIN ReadRows(APPLICATIONS_FILE)[i] = ApplicationColumns
  /\ \A i \in DOMAIN file[APPLICATIONS_FILE] :
       DOMAIN file[APPLICATIONS_FILE][i] = ApplicationColumns


(***************************************************************************)
(* Inserts and the rows already in the table.                              *)
(***************************************************************************)
InsertOps == {"save_application", "save_hotel", "add_comment"}

\* C37: a save_application, save_hotel or add_comment that reports success
\* leaves every row that was in the table of its kind in place and
\* unchanged, and adds its row after them, also when its read of the table
\* failed and gave an empty result.
C37_InsertOnlyAppends ==
  [][(/\ last'.op \in InsertOps
      /\ last'.result = "saved"
      /\ steps' = steps + 1)
     => \A p \in last'.writes :
          /\ Len(file'[p]) = Len(file[p]) + 1
          /\ \A i \in DOMAIN file[p] : file'[p][i] = file[p][i]]_vars


(***************************************************************************)
(* The ids of the live tables.                                             *)
(***************************************************************************)
\* no two rows of the table have the same id
UniqueIds(df) == \A i, j \in DOMAIN df : i # j => df[i].ID # df[j].ID

\* C38: whatever submissions, status changes, cancels and archive
\* operations have run, with whatever failures, no two ticket applications
\* in the table have the same id and no two hotel bookings have the same id.
C38_LiveIdsUnique ==
  /\ UniqueIds(file[APPLICATIONS_FILE])
  /\ UniqueIds(file[HOTELS_FILE])

\* two applications have been submitted and the status of one was changed
C38_Witness ==
  /\ Len(file[APPLICATIONS_FILE]) = 2
  /\ last.op = "set_status"
  /\ last.result = "done"


(***************************************************************************)
(* Archival: submissions and archive operations on tables that hold        *)
(* records, with no failure.                                               *)
(***************************************************************************)
ArchivalNext ==
  \/ \E u \in Submitters : SaveApplication(u, "none")
  \/ \E u \in Submitters : SaveHotel(u, "none")
  \/ \E t \in ItemTypes, i \in Ids : CbArchiveItem(ADMIN_ID, t, i, "none")

Archival == CommentsInit /\ [][ArchivalNext]_vars

\* C39: after any submissions and successful archive operations the archive
\* holds at most one entry of a type and an id.
C39_ArchiveKeyUnique ==
  \A t \in ItemTypes, i \in Ids : Cardinality(ArchiveEntries(t, i)) <= 1

=============================================================================
